---- MODULE Spec2Model ----
(***************************************************************************)
(* A model of the flashcard normalizer of src/main.py: the Card loader and *)
(* dumper, the Action registry and Action.apply, deduplicate, and the      *)
(* pipeline driver main.                                                   *)
(*                                                                         *)
(* A Python str is modelled as a sequence of one-character strings, so     *)
(* that splitting, joining, prefix removal and substitution are computed   *)
(* character by character as the code's library calls compute them.        *)
(***************************************************************************)
EXTENDS Integers, Sequences, FiniteSets, TLC

VARIABLES
    file,        \* content of the file Card.loads reads / Card.dumps writes
    wdSep,       \* word_definition_sep argument
    cardSep,     \* card_sep argument
    cardsArg,    \* the list of cards handed to Card.dumps
    loaded,      \* what Card.loads returned or raised
    codecPc,     \* position of the load/dump scenario
    dedupCards,  \* deduplicate: the argument cards
    dedupIdx,    \* deduplicate: index of the next card of the for loop
    seen,        \* deduplicate: the dict seen, in insertion order
    log,         \* the warnings handed to the logger so far
    dedupOut,    \* deduplicate: the list returned
    dedupPc,     \* deduplicate: "loop" or "done"
    jump_table,  \* Action.jump_table, a dict in insertion order
    regCall,     \* the latest registration call: its arguments
    regRaised,   \* what that call raised, "none" if it returned
    regCount,    \* number of registration calls made
    regexModule, \* the module bound to the name re: "regex", or "re" as fallback
    heap,        \* the Card objects, by identity
    applyArg,    \* Action.apply: the cards as they were when it was called
    applyActions, \* Action.apply: the argument actions
    applyStage,  \* Action.apply: index of the action of the for loop
    applyFn,     \* Action.apply: the callable of the current action
    applyCards,  \* Action.apply: the local cards, a list of object identities
    applyNew,    \* Action.apply: the list the comprehension is building
    applyPos,    \* Action.apply: index of the next card of the comprehension
    applyPc,     \* Action.apply: "for", "map", "done", or the exception raised
    applyTrace,  \* every call action(card) made, in order
    mainPc,      \* main: the step to take next, "exit", or the exception raised
    mainActionArg, \* main: the --action argument of the command line
    outFile,     \* content of the output file
    outOpened,   \* main: whether the output file has been opened for writing
    mainSteps,   \* main: the steps completed, in order
    exText,      \* pair_exclamation._impl: the argument s
    exTokens,    \* what sentence_tokenize(s) returned
    exSentences, \* pair_exclamation._impl: the list sentences
    exIdx,       \* pair_exclamation._impl: index of the next sentence of the for loop
    exResult,    \* pair_exclamation._impl: the text returned
    exPc,        \* pair_exclamation._impl: "tokenize", "for", or "done"
    txFn,        \* the callable under call, an entry of a jump table
    txArg,       \* the card as it was before the first call
    txCard,      \* the Card object handed to the callable
    txIdx,       \* regex_substitute._impl: index of the next item of the for loop
    txCalls,     \* number of calls of the callable that have returned
    txFirst,     \* the card as it was when the first call returned
    pqText,      \* pair_quotation._impl: the argument s
    pqCharArr,   \* pair_quotation._impl: char_arr
    pqMatches,   \* the matches finditer yields, each as its match.spans("quote")
    pqMatch,     \* pair_quotation._impl: index of the match of the outer for loop
    pqSpan,      \* pair_quotation._impl: index of the next span of the loop over spans
    pqLevels,    \* pair_quotation._impl: levels
    pqResult,    \* pair_quotation._impl: the text returned
    pqPc,        \* pair_quotation._impl: "finditer", "for", or "done"
    dedupPass,   \* deduplicate: 1 in the first call, 2 in a call on its own result
    dedupFirst,  \* what the first call of deduplicate returned and had logged
    site,        \* the folders of the user on the site, in the order the site lists them
    perPage,     \* the page size of the site's folder listing
    qQuery,      \* Folder.query: the argument name
    qPage,       \* Folder._query_get: params["page"]
    qResults,    \* Folder._query_get: the list results
    qTotal,      \* Folder._query_get: the local total
    qRequested,  \* the pages requested from the site, in order
    qReturned,   \* what Folder.query returned
    qPc,         \* Folder.query: "get", "break", "AssertionError", "returned by get", "returned by js"
    fName,       \* NamedFolder: the name
    fUrl,        \* NamedFolder: the cached property url, as the id of its folder; 0 before it is computed
    fNextId,     \* the id the site gives the next folder created
    fAssigned,   \* the values assigned to created so far, in order
    fPc,         \* "ready" between assignments, "querying" in a query that does not return, or the exception raised
    site0        \* the folders on the site before the first assignment

codecVars == <<file, wdSep, cardSep, cardsArg, loaded, codecPc>>
dedupVars == <<dedupCards, dedupIdx, seen, log, dedupOut, dedupPc>>

regVars == <<jump_table, regCall, regRaised, regCount>>

applyVars == <<regexModule, heap, applyArg, applyActions, applyStage, applyFn,
               applyCards, applyNew, applyPos, applyPc, applyTrace>>

mainVars == <<mainPc, mainActionArg, outFile, outOpened, mainSteps>>

exVars == <<exText, exTokens, exSentences, exIdx, exResult, exPc>>

txVars == <<txFn, txArg, txCard, txIdx, txCalls, txFirst>>

pqVars == <<pqText, pqCharArr, pqMatches, pqMatch, pqSpan, pqLevels, pqResult, pqPc>>

textVars == <<exVars, txVars, pqVars>>

passVars == <<dedupPass, dedupFirst>>

queryVars == <<perPage, qQuery, qPage, qResults, qTotal, qRequested, qReturned, qPc>>

folderVars == <<fName, fUrl, fNextId, fAssigned, fPc, site0>>

siteVars == <<site, queryVars, folderVars>>

vars == <<codecVars, dedupVars, regVars, applyVars, mainVars, textVars, siteVars, passVars, passVars>>

(***************************************************************************)
(* Text helpers                                                            *)
(***************************************************************************)

\* The characters the regex class \s matches, among those the model uses.
Whitespace == {" ", "\t", "\n", "\r"}

\* s[i..] (Python s[i-1:]), empty when i is past the end.
From(s, i) == SubSeq(s, i, Len(s))

\* Does the literal lit occur in s starting at position i (1-based)?
LitAt(lit, s, i) ==
    /\ i >= 1
    /\ i + Len(lit) - 1 <= Len(s)
    /\ SubSeq(s, i, i + Len(lit) - 1) = lit

\* Does lit occur anywhere in s?
Contains(s, lit) == \E i \in 1..(Len(s) + 1) : LitAt(lit, s, i)

\* First position at or after i that holds no whitespace (Len(s)+1 at the end):
\* where a greedy \s* starting at i stops.
RECURSIVE SkipWs(_, _)
SkipWs(s, i) ==
    IF i <= Len(s) /\ s[i] \in Whitespace THEN SkipWs(s, i + 1) ELSE i

\* Concatenation of a sequence of texts.
RECURSIVE Concat(_)
Concat(ss) == IF ss = <<>> THEN <<>> ELSE Head(ss) \o Concat(Tail(ss))

\* Python sep.join(parts).
RECURSIVE Join(_, _)
Join(sep, parts) ==
    IF parts = <<>> THEN <<>>
    ELSE IF Len(parts) = 1 THEN parts[1]
    ELSE parts[1] \o sep \o Join(sep, Tail(parts))

\* All lists of at most n elements of S.
RECURSIVE ListsUpTo(_, _)
ListsUpTo(S, n) ==
    IF n = 0 THEN {<<>>}
    ELSE LET shorter == ListsUpTo(S, n - 1)
         IN  shorter \cup {Append(l, x) : l \in shorter, x \in S}

(***************************************************************************)
(* Regular expressions.  A compiled pattern is a record [kind, lit]:       *)
(*   "literal"   the text lit itself                                       *)
(*   "padded"    \s*lit\s*, the shape of the default separators of parse() *)
(*               and of the parenthesis and quotation patterns             *)
(*   "spaces"    \s+                                                       *)
(*   "repeated"  (?P<chr>[lit]){2,}\s*, lit being the characters of the    *)
(*               class                                                     *)
(*   "sentence"  (?<!\w\.\w.)(?<![A-Z][a-z]\.)(?<=\.|\?|\!)\s, the pattern of  *)
(*               sentence_tokenize                                         *)
(*   "invalid"   a pattern re.compile rejects                              *)
(* None of them matches the empty text.                                    *)
(***************************************************************************)

Literal(lit) == [kind |-> "literal", lit |-> lit]
Padded(lit) == [kind |-> "padded", lit |-> lit]
Spaces == [kind |-> "spaces", lit |-> <<>>]
Repeated(class) == [kind |-> "repeated", lit |-> class]
SentencePattern == [kind |-> "sentence", lit |-> <<>>]
InvalidPattern == [kind |-> "invalid", lit |-> <<>>]

\* parse(): the defaults r"\s*<sep>\s*" and r"\s*<card>\s*".
SepToken == <<"<", "s", "e", "p", ">">>
CardToken == <<"<", "c", "a", "r", "d", ">">>
DefaultWordDefinitionSep == Padded(SepToken)
DefaultCardSep == Padded(CardToken)

InClass(c, class) == \E k \in 1..Len(class) : class[k] = c

\* First position at or after i whose character is not in the class.
RECURSIVE SkipClass(_, _, _)
SkipClass(s, i, class) ==
    IF i <= Len(s) /\ InClass(s[i], class) THEN SkipClass(s, i + 1, class) ELSE i

\* The classes [A-Z], [a-z] and \w, among the characters the model uses.
Uppercase ==
    {"A", "B", "C", "D", "E", "F", "G", "H", "I", "J", "K", "L", "M",
     "N", "O", "P", "Q", "R", "S", "T", "U", "V", "W", "X", "Y", "Z"}
Lowercase ==
    {"a", "b", "c", "d", "e", "f", "g", "h", "i", "j", "k", "l", "m",
     "n", "o", "p", "q", "r", "s", "t", "u", "v", "w", "x", "y", "z"}
Digits == {"0", "1", "2", "3", "4", "5", "6", "7", "8", "9"}
WordChars == Uppercase \cup Lowercase \cup Digits \cup {"_"}

\* The three lookbehinds of the sentence pattern, at position i.  The last
\* element of \w\.\w. is an unescaped dot: any character but a newline.
BehindWordDotWordAny(s, i) ==
    /\ i >= 5
    /\ s[i - 4] \in WordChars
    /\ s[i - 3] = "."
    /\ s[i - 2] \in WordChars
    /\ s[i - 1] # "\n"

BehindUpperLowerDot(s, i) ==
    /\ i >= 4
    /\ s[i - 3] \in Uppercase
    /\ s[i - 2] \in Lowercase
    /\ s[i - 1] = "."

BehindPunctuation(s, i) ==
    /\ i >= 2
    /\ s[i - 1] \in {".", "?", "!"}

\* Pattern.match at position i: the position after the match, 0 if none.
\* "padded": the leading \s* is greedy and backtracks, so the literal may
\* start at any position of the whitespace run and the last one that works
\* is taken; the trailing \s* takes the whole run that follows.
MatchEnd(pat, s, i) ==
    CASE pat.kind = "literal" ->
            IF LitAt(pat.lit, s, i) THEN i + Len(pat.lit) ELSE 0
      [] pat.kind = "padded" ->
            LET starts == {k \in i..SkipWs(s, i) : LitAt(pat.lit, s, k)}
            IN  IF starts = {} THEN 0
                ELSE LET k == CHOOSE x \in starts : \A y \in starts : y <= x
                     IN  SkipWs(s, k + Len(pat.lit))
      [] pat.kind = "spaces" ->
            IF SkipWs(s, i) > i THEN SkipWs(s, i) ELSE 0
      [] pat.kind = "repeated" ->
            IF SkipClass(s, i, pat.lit) >= i + 2
            THEN SkipWs(s, SkipClass(s, i, pat.lit))
            ELSE 0
      [] pat.kind = "sentence" ->
            IF /\ ~BehindWordDotWordAny(s, i)
               /\ ~BehindUpperLowerDot(s, i)
               /\ BehindPunctuation(s, i)
               /\ s[i] \in Whitespace
            THEN i + 1
            ELSE 0

\* Pattern.split(s): the texts between the leftmost non-overlapping matches.
\* i scans for the next match, start is where the current piece began.
RECURSIVE SplitFrom(_, _, _, _)
SplitFrom(pat, s, i, start) ==
    IF i > Len(s) THEN <<SubSeq(s, start, Len(s))>>
    ELSE LET e == MatchEnd(pat, s, i)
         IN  IF e > 0
             THEN <<SubSeq(s, start, i - 1)>> \o SplitFrom(pat, s, e, e)
             ELSE SplitFrom(pat, s, i + 1, start)

RegexSplit(pat, s) == SplitFrom(pat, s, 1, 1)

\* The replacement template r"\g<chr>": the text of the group chr, which
\* after a repetition is the last character the group matched.
GroupChr == <<"\\", "g", "<", "c", "h", "r", ">">>

Expand(repl, pat, s, i) ==
    IF repl = GroupChr THEN <<s[SkipClass(s, i, pat.lit) - 1]>> ELSE repl

\* Pattern.sub(repl, s): every leftmost non-overlapping match replaced.
RECURSIVE SubFrom(_, _, _, _)
SubFrom(pat, repl, s, i) ==
    IF i > Len(s) THEN <<>>
    ELSE LET e == MatchEnd(pat, s, i)
         IN  IF e > 0
             THEN Expand(repl, pat, s, i) \o SubFrom(pat, repl, s, e)
             ELSE <<s[i]>> \o SubFrom(pat, repl, s, i + 1)

RegexSub(pat, repl, s) == SubFrom(pat, repl, s, 1)

\* str.strip()
RECURSIVE StripRight(_)
StripRight(s) ==
    IF s # <<>> /\ s[Len(s)] \in Whitespace
    THEN StripRight(SubSeq(s, 1, Len(s) - 1)) ELSE s

Strip(s) == StripRight(From(s, SkipWs(s, 1)))

(***************************************************************************)
(* Actions.  A callable is [fname, arity, kind, mapping]: its __name__,    *)
(* the number of its parameters, and what it does: kind "regex" is the     *)
(* _impl closure regex_substitute builds over mapping, a sequence of       *)
(* [pattern, repl] in dict order; any other kind names a def of main.py.   *)
(***************************************************************************)

\* Characters outside ASCII, by code point.
FullwidthLeftParen == "U+FF08"
FullwidthRightParen == "U+FF09"
LeftCornerBracket == "U+300C"
RightCornerBracket == "U+300D"
LeftWhiteCornerBracket == "U+300E"
RightWhiteCornerBracket == "U+300F"
LeftDoubleQuote == "U+201C"
RightDoubleQuote == "U+201D"
LeftSingleQuote == "U+2018"
RightSingleQuote == "U+2019"
InvertedExclamation == "U+00A1"
InvertedQuestion == "U+00BF"

Def(name) == [fname |-> name, arity |-> 1, kind |-> name, mapping |-> <<>>]
RegexImpl(mapping) == [fname |-> "_impl", arity |-> 1, kind |-> "regex", mapping |-> mapping]

\* The dicts handed to regex_substitute at import.
UniformSpaceMapping == <<[pattern |-> Spaces, repl |-> <<" ">>]>>

UniformParenthesisMapping ==
    <<[pattern |-> Padded(<<FullwidthLeftParen>>), repl |-> <<" ", "(">>],
      [pattern |-> Padded(<<FullwidthRightParen>>), repl |-> <<")", " ">>]>>

UniformQuotationMapping ==
    <<[pattern |-> Padded(<<LeftCornerBracket>>), repl |-> <<" ", LeftDoubleQuote>>],
      [pattern |-> Padded(<<RightCornerBracket>>), repl |-> <<RightDoubleQuote, " ">>],
      [pattern |-> Padded(<<LeftWhiteCornerBracket>>), repl |-> <<" ", LeftSingleQuote>>],
      [pattern |-> Padded(<<RightWhiteCornerBracket>>), repl |-> <<RightSingleQuote, " ">>],
      [pattern |-> Repeated(<<LeftWhiteCornerBracket, LeftCornerBracket, "\"",
                              LeftDoubleQuote, LeftSingleQuote, "'">>),
       repl |-> GroupChr],
      [pattern |-> Repeated(<<RightWhiteCornerBracket, RightCornerBracket, "\"",
                              RightDoubleQuote, RightSingleQuote, "'">>),
       repl |-> GroupChr]>>

\* dict-like view of jump_table
TableNames(table) == {table[i].name : i \in 1..Len(table)}
TableIndex(table, name) ==
    IF name \in TableNames(table)
    THEN CHOOSE i \in 1..Len(table) : table[i].name = name
    ELSE 0

\* name or action.__name__
EffectiveName(action, name) == IF name # "" THEN name ELSE action.fname

\* Action.__init__ without the "already exists" check: the assignment
\* replaces the function stored under a name that is present.
ActionInitOverwrite(table, action, name) ==
    IF action.arity # 1
    THEN [raised |-> "ValueError", table |-> table]
    ELSE LET n == EffectiveName(action, name)
             at == TableIndex(table, n)
         IN  IF at # 0
             THEN [raised |-> "none", table |-> [table EXCEPT ![at].action = action]]
             ELSE [raised |-> "none",
                   table |-> Append(table, [name |-> n, action |-> action])]

\* Action.__init__(action, name) on the class attribute jump_table: what it
\* raises and the table afterwards.
ActionInit(table, action, name) ==
    IF action.arity # 1
    THEN [raised |-> "ValueError", table |-> table]
    ELSE LET n == EffectiveName(action, name)
         IN  IF n \in TableNames(table)
             THEN [raised |-> "ValueError", table |-> table]
             ELSE [raised |-> "none",
                   table |-> Append(table, [name |-> n, action |-> action])]

\* Action.regex_substitute(to_be_replaced, name): re.error from re.compile
\* becomes ValueError, otherwise Action(_impl, name).
RegexSubstituteCall(table, mapping, name) ==
    IF \E k \in 1..Len(mapping) : mapping[k].pattern.kind = "invalid"
    THEN [raised |-> "ValueError", table |-> table]
    ELSE ActionInit(table, RegexImpl(mapping), name)

\* Action.jump_table once main.py is imported: the three regex_substitute
\* calls and the three @Action.register defs, in source order.
RECURSIVE RegisterAll(_, _)
RegisterAll(table, entries) ==
    IF entries = <<>> THEN table
    ELSE RegisterAll(ActionInit(table, Head(entries).action, Head(entries).name).table,
                     Tail(entries))

BuiltinTable ==
    RegisterAll(<<>>,
        <<[action |-> RegexImpl(UniformSpaceMapping), name |-> "uniform_space"],
          [action |-> RegexImpl(UniformParenthesisMapping), name |-> "uniform_parenthesis"],
          [action |-> RegexImpl(UniformQuotationMapping), name |-> "uniform_quotation"],
          [action |-> Def("pair_quotation"), name |-> ""],
          [action |-> Def("pair_exclamation"), name |-> ""],
          [action |-> Def("trim_space"), name |-> ""]>>)

(***************************************************************************)
(* What the registered callables do to a card.  The built-in ones change   *)
(* the card they are given and return it.                                  *)
(***************************************************************************)

\* _impl of regex_substitute: each pattern in turn on the word, then on the
\* definition, each substitution on what the earlier ones left.
RECURSIVE RegexImplCard(_, _)
RegexImplCard(mapping, card) ==
    IF mapping = <<>> THEN card
    ELSE LET k == Head(mapping).pattern
             v == Head(mapping).repl
         IN  RegexImplCard(Tail(mapping),
                [card EXCEPT !.word = RegexSub(k, v, card.word),
                             !.definition = RegexSub(k, v, card.definition)])

\* The body of the for loop of that _impl with word only: the definition
\* is left as it is.
ImplStepWordOnly(item, card) ==
    [card EXCEPT !.word = RegexSub(item.pattern, item.repl, card.word)]

\* The body of the for loop of that _impl, for the item (k, v).
ImplStep(item, card) ==
    [card EXCEPT !.word = RegexSub(item.pattern, item.repl, card.word),
                 !.definition = RegexSub(item.pattern, item.repl, card.definition)]

\* str.strip() taking a single whitespace character from each end.
StripOne(s) ==
    LET left == IF s # <<>> /\ s[1] \in Whitespace THEN Tail(s) ELSE s
    IN  IF left # <<>> /\ left[Len(left)] \in Whitespace
        THEN SubSeq(left, 1, Len(left) - 1) ELSE left

TrimSpaceCardOneChar(card) ==
    [card EXCEPT !.word = StripOne(card.word), !.definition = StripOne(card.definition)]

\* trim_space
TrimSpaceCard(card) ==
    [card EXCEPT !.word = Strip(card.word), !.definition = Strip(card.definition)]

QuoteGlyphs ==
    {"\"", "'", LeftDoubleQuote, RightDoubleQuote, LeftSingleQuote, RightSingleQuote}
\* The character classes of the pattern of pair_quotation.
SingleStart == {"'", LeftSingleQuote}
SingleEnd == {"'", RightSingleQuote}
DoubleStart == {"\"", LeftDoubleQuote}
DoubleEnd == {"\"", RightDoubleQuote}

\* First position at or after i that holds a quotation mark (Len(s)+1 at the
\* end): where the greedy [^...]+ of the group named not stops.
RECURSIVE SkipNotQuote(_, _)
SkipNotQuote(s, i) ==
    IF i <= Len(s) /\ s[i] \notin QuoteGlyphs THEN SkipNotQuote(s, i + 1) ELSE i

\* A span is [lo, hi] as Match.spans reports it: s[lo:hi] in Python, the
\* characters lo+1 .. hi of the sequence.
NoQuote == [end |-> 0, spans |-> <<>>]

\* The group quote tried at position i (1-based): the position after the
\* match (0 if none) and the captures of the group made on the way, those of
\* the recursive calls included, in the order in which they were completed.
\* The two alternatives start with different characters.  The loop
\* (?:(?&not)|(?&quote))++ is possessive: it takes iterations while one
\* matches and is never re-entered.
RECURSIVE QuoteAt(_, _), QuoteLoop(_, _, _, _)
QuoteAt(s, i) ==
    IF i > Len(s) \/ s[i] \notin (SingleStart \cup DoubleStart) THEN NoQuote
    ELSE LET body == QuoteLoop(s, i + 1, 0, <<>>)
             ends == IF s[i] \in SingleStart THEN SingleEnd ELSE DoubleEnd
         IN  IF body.count >= 1 /\ body.end <= Len(s) /\ s[body.end] \in ends
             THEN [end |-> body.end + 1,
                   spans |-> Append(body.spans, [lo |-> i - 1, hi |-> body.end])]
             ELSE NoQuote

QuoteLoop(s, p, count, spans) ==
    IF p <= Len(s) /\ s[p] \notin QuoteGlyphs
    THEN QuoteLoop(s, SkipNotQuote(s, p), count + 1, spans)
    ELSE LET inner == QuoteAt(s, p)
         IN  IF inner.end > 0
             THEN QuoteLoop(s, inner.end, count + 1, spans \o inner.spans)
             ELSE [end |-> p, count |-> count, spans |-> spans]

\* match_quotation.finditer(s): for every match, left to right, its
\* match.spans("quote").
RECURSIVE FindQuotations(_, _)
FindQuotations(s, i) ==
    IF i > Len(s) THEN <<>>
    ELSE LET m == QuoteAt(s, i)
         IN  IF m.end > 0
             THEN <<m.spans>> \o FindQuotations(s, m.end)
             ELSE FindQuotations(s, i + 1)

\* min(levels[0], key=lambda t: t[0])[0] and max(levels[0], key=lambda t: t[1])[1]
MinLo(level) == CHOOSE x \in {level[k].lo : k \in 1..Len(level)} :
                    \A k \in 1..Len(level) : x <= level[k].lo
MaxHi(level) == CHOOSE x \in {level[k].hi : k \in 1..Len(level)} :
                    \A k \in 1..Len(level) : x >= level[k].hi

\* The body of the loop "for span in match.spans("quote")": levels afterwards.
LevelStep(levels, span) ==
    IF levels = <<>> THEN <<<<span>>>>
    ELSE IF span.lo < MinLo(levels[1]) /\ MaxHi(levels[1]) < span.hi
         THEN <<<<span>>>> \o levels
         ELSE [levels EXCEPT ![1] = <<span>> \o @]

\* The index of the closing mark one place too far to the right.
CloseIndexPastSpan(quote) == quote.hi + 1

\* char_arr[hi - 1], as an index of the sequence
CloseIndex(quote) == (quote.hi - 1) + 1

\* for quote in level: the two assignments to char_arr
RECURSIVE RewriteLevel(_, _, _)
RewriteLevel(char_arr, level, dbl) ==
    IF level = <<>> THEN char_arr
    ELSE RewriteLevel(
            [i \in 1..Len(char_arr) |->
                IF i = CloseIndex(Head(level))
                THEN (IF dbl THEN RightDoubleQuote ELSE RightSingleQuote)
                ELSE IF i = Head(level).lo + 1
                     THEN (IF dbl THEN LeftDoubleQuote ELSE LeftSingleQuote)
                     ELSE char_arr[i]],
            Tail(level), dbl)

\* for level in levels: ... dbl = not dbl
RECURSIVE RewriteLevels(_, _, _)
RewriteLevels(char_arr, levels, dbl) ==
    IF levels = <<>> THEN char_arr
    ELSE RewriteLevels(RewriteLevel(char_arr, Head(levels), dbl), Tail(levels), ~dbl)

RECURSIVE LevelsOf(_, _)
LevelsOf(levels, spans) ==
    IF spans = <<>> THEN levels ELSE LevelsOf(LevelStep(levels, Head(spans)), Tail(spans))

RECURSIVE RewriteMatches(_, _)
RewriteMatches(char_arr, matches) ==
    IF matches = <<>> THEN char_arr
    ELSE RewriteMatches(RewriteLevels(char_arr, LevelsOf(<<>>, Head(matches)), TRUE),
                        Tail(matches))

\* pair_quotation._impl
PairQuotationText(text) == RewriteMatches(text, FindQuotations(text, 1))

\* sentence_tokenize
SentenceTokenize(s) == RegexSplit(SentencePattern, s)

\* str.startswith / str.endswith of a single character
StartsWith(s, c) == s # <<>> /\ s[1] = c
EndsWith(s, c) == s # <<>> /\ s[Len(s)] = c

\* The body of the for loop of pair_exclamation._impl: what sentences[i] is
\* after the four if statements.  Each test reads the loop variable
\* sentence and each assignment is built from it, so a later assignment
\* replaces an earlier one.
PairSentence(sentence) ==
    LET first == IF EndsWith(sentence, "!") /\ ~StartsWith(sentence, InvertedExclamation)
                 THEN <<InvertedExclamation>> \o sentence ELSE sentence
        second == IF ~StartsWith(sentence, InvertedExclamation) /\ EndsWith(sentence, "!")
                  THEN sentence \o <<"!">> ELSE first
        third == IF StartsWith(sentence, InvertedQuestion) /\ ~EndsWith(sentence, "?")
                 THEN sentence \o <<"?">> ELSE second
        fourth == IF ~StartsWith(sentence, InvertedQuestion) /\ EndsWith(sentence, "?")
                  THEN <<InvertedQuestion>> \o sentence ELSE third
    IN  fourth

\* pair_exclamation._impl
PairExclamationText(text) ==
    LET sentences == SentenceTokenize(text)
    IN  Join(<<" ">>, [i \in 1..Len(sentences) |-> PairSentence(sentences[i])])

\* action(card): what the call raises and the card afterwards.
\* pair_quotation compiles its pattern on every call, and the pattern,
\* (?(DEFINE)...) with (?&quote), is one that only the regex module accepts.
Call(fn, card, module) ==
    CASE fn.kind = "regex" ->
            [raised |-> "none", card |-> RegexImplCard(fn.mapping, card)]
      [] fn.kind = "trim_space" ->
            [raised |-> "none", card |-> TrimSpaceCard(card)]
      [] fn.kind = "pair_quotation" ->
            IF module = "re"
            THEN [raised |-> "re.error", card |-> card]
            ELSE [raised |-> "none",
                  card |-> [card EXCEPT !.word = PairQuotationText(card.word),
                                        !.definition = PairQuotationText(card.definition)]]
      [] fn.kind = "pair_exclamation" ->
            [raised |-> "none",
             card |-> [card EXCEPT !.word = PairExclamationText(card.word),
                                   !.definition = PairExclamationText(card.definition)]]

(***************************************************************************)
(* Action.apply.  An element of actions is [str, name, fn]: a name to look *)
(* up in jump_table (str = TRUE), or a callable fn.                        *)
(***************************************************************************)
ByName(name) == [str |-> TRUE, name |-> name, fn |-> Def("none")]
ByFunction(fn) == [str |-> FALSE, name |-> "", fn |-> fn]

\* A for loop that takes the actions from the last to the first.
StageActionReversed(actions, k) == actions[Len(actions) + 1 - k]

\* for action in actions: the action of iteration k
StageAction(actions, k) == actions[k]

(***************************************************************************)
(* Files.  open(file, "r") reads in text mode with universal newlines: a   *)
(* "\r\n" or a lone "\r" arrives as "\n".                                  *)
(***************************************************************************)
RECURSIVE ReadText(_)
ReadText(s) ==
    IF s = <<>> THEN <<>>
    ELSE IF s[1] = "\r"
    THEN IF Len(s) >= 2 /\ s[2] = "\n"
         THEN <<"\n">> \o ReadText(From(s, 3))
         ELSE <<"\n">> \o ReadText(Tail(s))
    ELSE <<s[1]>> \o ReadText(Tail(s))

(***************************************************************************)
(* Card                                                                    *)
(***************************************************************************)

\* The default of the dataclass field picture.
NoPicture == <<>>

\* Card(*fields): word and definition are required, picture is optional, a
\* fourth positional argument is one too many.
CardArity(fields) == Len(fields) \in {2, 3}

Card(fields) ==
    [word |-> fields[1],
     definition |-> fields[2],
     picture |-> IF Len(fields) >= 3 THEN fields[3] ELSE NoPicture]

NonEmpty(t) == t # <<>>

\* Card.loads without the "if wd" filter of the comprehension.
CardLoadsKeepEmpty(content, word_definition_sep, card_sep) ==
    LET data == ReadText(content)
        chunks == RegexSplit(card_sep, data)
        fields == [i \in 1..Len(chunks) |-> RegexSplit(word_definition_sep, chunks[i])]
    IN  IF \A i \in 1..Len(chunks) : CardArity(fields[i])
        THEN [raised |-> "none", cards |-> [i \in 1..Len(chunks) |-> Card(fields[i])]]
        ELSE [raised |-> "TypeError", cards |-> <<>>]

\* Card.loads: raised is "none" and cards the list, or raised is the
\* exception of the first Card(...) call that fails and there is no list.
CardLoads(content, word_definition_sep, card_sep) ==
    LET data == ReadText(content)
        chunks == SelectSeq(RegexSplit(card_sep, data), NonEmpty)
        fields == [i \in 1..Len(chunks) |-> RegexSplit(word_definition_sep, chunks[i])]
    IN  IF \A i \in 1..Len(chunks) : CardArity(fields[i])
        THEN [raised |-> "none", cards |-> [i \in 1..Len(chunks) |-> Card(fields[i])]]
        ELSE [raised |-> "TypeError", cards |-> <<>>]

\* Card.dumps: the text written, the whole content of the file.
CardDumps(cards, word_definition_sep, card_sep) ==
    Join(card_sep,
         [i \in 1..Len(cards) |->
            Join(word_definition_sep, <<cards[i].word, cards[i].definition>>)])

(***************************************************************************)
(* deduplicate                                                             *)
(***************************************************************************)

\* The literal prefixes of deduplicate, in the order of the list.
Prefixes ==
    << <<"e", "l">>, <<"l", "a">>, <<"l", "o", "s">>, <<"l", "a", "s">>,
       <<"u", "n">>, <<"u", "n", "a">>, <<"u", "n", "o", "s">>,
       <<"u", "n", "a", "s">> >>

\* str.removeprefix
RemovePrefix(s, p) == IF LitAt(p, s, 1) THEN From(s, Len(p) + 1) ELSE s

\* reduce(lambda r, p: r.removeprefix(p), [word] + prefixes): each prefix is
\* tried once, in list order, on what the earlier ones left.
RECURSIVE RemovePrefixes(_, _)
RemovePrefixes(r, ps) ==
    IF ps = <<>> THEN r ELSE RemovePrefixes(RemovePrefix(r, Head(ps)), Tail(ps))

Root(word) == RemovePrefixes(word, Prefixes)

\* The dict seen is a sequence of [root, card] entries in insertion order;
\* assigning to a key that is present keeps the key's position.
SeenIndex(d, root) ==
    IF \E i \in 1..Len(d) : d[i].root = root
    THEN CHOOSE i \in 1..Len(d) : d[i].root = root
    ELSE 0

\* max(a, b, key=len): the first of the two unless the second is longer.
MaxByLen(a, b) == IF Len(b) > Len(a) THEN b ELSE a

\* log.warning(f"Duplicate word: {card.word}") and
\* log.warning(f"Different definition: {seen[root].definition} vs {card.definition}")
DuplicateWarning(card) == [warning |-> "Duplicate word", text |-> <<card.word>>]
DifferentWarning(other, card) ==
    [warning |-> "Different definition",
     text |-> <<other.definition, card.definition>>]

\* A body of the for loop that, on a repeated key, deletes the entry and
\* inserts the merged card anew, at the end of the dict.
DedupStepReinsert(st, card) ==
    LET root == Root(card.word)
        at == SeenIndex(st.seen, root)
    IN  IF at = 0
        THEN [seen |-> Append(st.seen, [root |-> root, card |-> card]), log |-> st.log]
        ELSE LET other == st.seen[at].card
                 merged == [word |-> MaxByLen(card.word, other.word),
                            definition |-> MaxByLen(card.definition, other.definition),
                            picture |-> card.picture]
                 rest == SelectSeq(st.seen, LAMBDA e : e.root # root)
             IN  [seen |-> Append(rest, [root |-> root, card |-> merged]),
                  log |-> st.log \o <<DuplicateWarning(card)>>
                          \o (IF other.definition # card.definition
                              THEN <<DifferentWarning(other, card)>> ELSE <<>>)]

\* A body of the for loop that stores the key as the word of the merged card.
DedupStepStoreRoot(st, card) ==
    LET root == Root(card.word)
        at == SeenIndex(st.seen, root)
    IN  IF at = 0
        THEN [seen |-> Append(st.seen, [root |-> root, card |-> card]), log |-> st.log]
        ELSE LET other == st.seen[at].card
                 merged == [word |-> root,
                            definition |-> MaxByLen(card.definition, other.definition),
                            picture |-> card.picture]
             IN  [seen |-> [st.seen EXCEPT ![at].card = merged],
                  log |-> st.log \o <<DuplicateWarning(card)>>
                          \o (IF other.definition # card.definition
                              THEN <<DifferentWarning(other, card)>> ELSE <<>>)]

\* A body of the for loop that keeps the stored definition on a repeated key.
DedupStepKeepDefinition(st, card) ==
    LET root == Root(card.word)
        at == SeenIndex(st.seen, root)
    IN  IF at = 0
        THEN [seen |-> Append(st.seen, [root |-> root, card |-> card]), log |-> st.log]
        ELSE LET other == st.seen[at].card
                 merged == [word |-> MaxByLen(card.word, other.word),
                            definition |-> other.definition,
                            picture |-> card.picture]
             IN  [seen |-> [st.seen EXCEPT ![at].card = merged],
                  log |-> st.log \o <<DuplicateWarning(card)>>
                          \o (IF other.definition # card.definition
                              THEN <<DifferentWarning(other, card)>> ELSE <<>>)]

\* A body of the for loop that warns of a different definition by comparing
\* with the merged definition instead of the stored one.
DedupStepCompareMerged(st, card) ==
    LET root == Root(card.word)
        at == SeenIndex(st.seen, root)
    IN  IF at = 0
        THEN [seen |-> Append(st.seen, [root |-> root, card |-> card]), log |-> st.log]
        ELSE LET other == st.seen[at].card
                 merged == [word |-> MaxByLen(card.word, other.word),
                            definition |-> MaxByLen(card.definition, other.definition),
                            picture |-> card.picture]
             IN  [seen |-> [st.seen EXCEPT ![at].card = merged],
                  log |-> st.log \o <<DuplicateWarning(card)>>
                          \o (IF merged.definition # card.definition
                              THEN <<DifferentWarning(other, card)>> ELSE <<>>)]

\* One iteration of the for loop of deduplicate on card, from the state
\* st = [seen, log] to the next.
DedupStep(st, card) ==
    LET root == Root(card.word)
        at == SeenIndex(st.seen, root)
    IN  IF at = 0
        THEN [seen |-> Append(st.seen, [root |-> root, card |-> card]), log |-> st.log]
        ELSE LET other == st.seen[at].card
                 merged == [word |-> MaxByLen(card.word, other.word),
                            definition |-> MaxByLen(card.definition, other.definition),
                            picture |-> card.picture]
             IN  [seen |-> [st.seen EXCEPT ![at].card = merged],
                  log |-> st.log \o <<DuplicateWarning(card)>>
                          \o (IF other.definition # card.definition
                              THEN <<DifferentWarning(other, card)>> ELSE <<>>)]

\* list(seen.values())
SeenValues(d) == [i \in 1..Len(d) |-> d[i].card]

\* deduplicate(cards) as a whole: the loop over all cards from an empty dict.
RECURSIVE DedupLoop(_, _)
DedupLoop(st, cards) ==
    IF cards = <<>> THEN st ELSE DedupLoop(DedupStep(st, Head(cards)), Tail(cards))

Deduplicate(cards) ==
    LET end == DedupLoop([seen |-> <<>>, log |-> <<>>], cards)
    IN  [cards |-> SeenValues(end.seen), log |-> end.log]

(***************************************************************************)
(* The values of the variables a scenario does not use.                    *)
(***************************************************************************)
CodecIdle ==
    /\ file = <<>>
    /\ wdSep = DefaultWordDefinitionSep
    /\ cardSep = DefaultCardSep
    /\ cardsArg = <<>>
    /\ loaded = [raised |-> "none", cards |-> <<>>]
    /\ codecPc = "idle"

DedupIdle ==
    /\ dedupCards = <<>>
    /\ dedupIdx = 1
    /\ seen = <<>>
    /\ log = <<>>
    /\ dedupOut = <<>>
    /\ dedupPc = "idle"

\* No registration call made yet.
NoCall == [op |-> "none", action |-> Def("none"), name |-> ""]

RegIdle ==
    /\ jump_table = BuiltinTable
    /\ regCall = NoCall
    /\ regRaised = "none"
    /\ regCount = 0

ApplyIdle ==
    /\ regexModule = "regex"
    /\ heap = <<>>
    /\ applyArg = <<>>
    /\ applyActions = <<>>
    /\ applyStage = 1
    /\ applyFn = Def("none")
    /\ applyCards = <<>>
    /\ applyNew = <<>>
    /\ applyPos = 1
    /\ applyPc = "idle"
    /\ applyTrace = <<>>

\* What the output file holds before main runs.
OldOutput == <<"o", "l", "d">>

MainIdle ==
    /\ mainPc = "idle"
    /\ mainActionArg = [given |-> FALSE, names |-> <<>>]
    /\ outFile = OldOutput
    /\ outOpened = FALSE
    /\ mainSteps = <<>>

ExIdle ==
    /\ exText = <<>>
    /\ exTokens = <<>>
    /\ exSentences = <<>>
    /\ exIdx = 1
    /\ exResult = <<>>
    /\ exPc = "idle"

TxIdle ==
    /\ txFn = Def("none")
    /\ txArg = Card(<<<<>>, <<>>>>)
    /\ txCard = Card(<<<<>>, <<>>>>)
    /\ txIdx = 1
    /\ txCalls = 0
    /\ txFirst = Card(<<<<>>, <<>>>>)

PqIdle ==
    /\ pqText = <<>>
    /\ pqCharArr = <<>>
    /\ pqMatches = <<>>
    /\ pqMatch = 1
    /\ pqSpan = 1
    /\ pqLevels = <<>>
    /\ pqResult = <<>>
    /\ pqPc = "idle"

TextIdle == ExIdle /\ TxIdle /\ PqIdle

QueryIdle ==
    /\ perPage = 1
    /\ qQuery = <<>>
    /\ qPage = 1
    /\ qResults = <<>>
    /\ qTotal = 0
    /\ qRequested = <<>>
    /\ qReturned = <<>>
    /\ qPc = "idle"

FolderIdle ==
    /\ fName = <<>>
    /\ fUrl = 0
    /\ fNextId = 1
    /\ fAssigned = <<>>
    /\ fPc = "idle"
    /\ site0 = <<>>

SiteIdle == site = <<>> /\ QueryIdle /\ FolderIdle

PassIdle ==
    /\ dedupPass = 1
    /\ dedupFirst = [cards |-> <<>>, log |-> <<>>]

\* Longest argument list.
MaxDedupCards == 3

\* The cards deduplicate is run on.
DedupWords == {<<"p">>, <<"e", "l", "p">>, <<"e", "l", " ", "p">>}
DedupDefinitions == {<<"x">>, <<"x", "x">>}
DedupPictures == {NoPicture, <<"1">>}
DedupInputs ==
    {Card(<<w, d, p>>) : w \in DedupWords, d \in DedupDefinitions, p \in DedupPictures}

DedupInit ==
    /\ TextIdle
    /\ SiteIdle
    /\ PassIdle
    /\ MainIdle
    /\ ApplyIdle
    /\ CodecIdle
    /\ RegIdle
    /\ dedupCards \in ListsUpTo(DedupInputs, MaxDedupCards)
    /\ dedupIdx = 1
    /\ seen = <<>>
    /\ log = <<>>
    /\ dedupOut = <<>>
    /\ dedupPc = "loop"

\* for card in cards: one iteration
DedupIterate ==
    /\ dedupPc = "loop"
    /\ dedupIdx <= Len(dedupCards)
    /\ LET next == DedupStep([seen |-> seen, log |-> log], dedupCards[dedupIdx])
       IN  /\ seen' = next.seen
           /\ log' = next.log
    /\ dedupIdx' = dedupIdx + 1
    /\ UNCHANGED <<textVars, siteVars, passVars, dedupCards, dedupOut, dedupPc, codecVars, regVars, applyVars, mainVars>>

\* return list(seen.values())
DedupReturn ==
    /\ dedupPc = "loop"
    /\ dedupIdx > Len(dedupCards)
    /\ dedupOut' = SeenValues(seen)
    /\ dedupPc' = "done"
    /\ UNCHANGED <<textVars, siteVars, passVars, dedupCards, dedupIdx, seen, log, codecVars, regVars, applyVars, mainVars>>

DedupNext == DedupIterate \/ DedupReturn

SpecDedup == DedupInit /\ [][DedupNext]_vars

(***************************************************************************)
(* Claims about deduplicate                                                *)
(***************************************************************************)
InputIndices == 1..Len(dedupCards)
OutputIndices == 1..Len(dedupOut)
InputRoots == {Root(dedupCards[i].word) : i \in InputIndices}
InputsWithRoot(root) == {i \in InputIndices : Root(dedupCards[i].word) = root}

\* Position of the first input card with this key, 0 if there is none.
FirstInputWithRoot(root) ==
    IF InputsWithRoot(root) = {} THEN 0
    ELSE CHOOSE i \in InputsWithRoot(root) : \A j \in InputsWithRoot(root) : i <= j

LastInputWithRoot(root) ==
    IF InputsWithRoot(root) = {} THEN 0
    ELSE CHOOSE i \in InputsWithRoot(root) : \A j \in InputsWithRoot(root) : j <= i

\* a is b with a determiner and a space in front, as "el perro" is "perro".
HasLeadingDeterminer(a, b) ==
    \E k \in 1..Len(Prefixes) : a = Prefixes[k] \o <<" ">> \o b

(***************************************************************************)
(* C7.  Two cards whose words differ only by a leading determiner, as      *)
(* "el perro" and "perro" do, have the same dedup key, and the output of   *)
(* deduplicate holds a single card for them.                               *)
(***************************************************************************)
C7_LeadingDeterminerIsDuplicate ==
    dedupPc = "done" =>
        \A i, j \in InputIndices :
            HasLeadingDeterminer(dedupCards[i].word, dedupCards[j].word) =>
                /\ Root(dedupCards[i].word) = Root(dedupCards[j].word)
                /\ Cardinality({o \in OutputIndices :
                        Root(dedupOut[o].word) \in
                            {Root(dedupCards[i].word), Root(dedupCards[j].word)}}) = 1

(***************************************************************************)
(* C8.  The output of deduplicate holds exactly one card for each dedup    *)
(* key of the input: no key is lost, no two output cards share a key, and  *)
(* the output cards are in the order of the first input card of their key. *)
(***************************************************************************)
C8_OneCardPerKeyInFirstSeenOrder ==
    dedupPc = "done" =>
        /\ {Root(dedupOut[o].word) : o \in OutputIndices} = InputRoots
        /\ Len(dedupOut) = Cardinality(InputRoots)
        /\ \A a, b \in OutputIndices :
            a < b => FirstInputWithRoot(Root(dedupOut[a].word))
                        < FirstInputWithRoot(Root(dedupOut[b].word))

\* Three cards, the first and the third of one key, the second of another.
C8_Witness ==
    /\ dedupPc = "done"
    /\ Len(dedupCards) = 3
    /\ Root(dedupCards[1].word) = Root(dedupCards[3].word)
    /\ Root(dedupCards[1].word) # Root(dedupCards[2].word)
    /\ dedupCards[1].word # dedupCards[3].word
    /\ Len(dedupOut) = 2

(***************************************************************************)
(* C9.  Longest wins: for every dedup key, the output card's word is a     *)
(* longest word among the input cards of that key, its definition a        *)
(* longest definition among them (each chosen on its own), and, when the   *)
(* key occurred more than once, its picture is that of the last input card *)
(* of that key.                                                            *)
(***************************************************************************)
C9_LongestWinsMerge ==
    dedupPc = "done" =>
        \A o \in OutputIndices :
            LET card == dedupOut[o]
                same == InputsWithRoot(Root(card.word))
            IN  /\ \E i \in same : dedupCards[i].word = card.word
                /\ \A i \in same : Len(dedupCards[i].word) <= Len(card.word)
                /\ \E i \in same : dedupCards[i].definition = card.definition
                /\ \A i \in same : Len(dedupCards[i].definition) <= Len(card.definition)
                /\ Cardinality(same) > 1 =>
                    card.picture = dedupCards[LastInputWithRoot(Root(card.word))].picture

\* A key with three cards: the longest word and the longest definition come
\* from different cards, and the last card's picture differs from the others'.
C9_Witness ==
    /\ dedupPc = "done"
    /\ Len(dedupCards) = 3
    /\ Len(dedupOut) = 1
    /\ Len(dedupCards[1].word) > Len(dedupCards[2].word)
    /\ Len(dedupCards[2].definition) > Len(dedupCards[1].definition)
    /\ Len(dedupCards[2].definition) > Len(dedupCards[3].definition)
    /\ dedupCards[3].picture # dedupCards[1].picture
    /\ dedupCards[3].picture # dedupCards[2].picture
    /\ dedupOut[1].word = dedupCards[1].word
    /\ dedupOut[1].definition = dedupCards[2].definition
    /\ dedupOut[1].picture = dedupCards[3].picture

(***************************************************************************)
(* C10.  deduplicate never fails on duplicates: an iteration on a card     *)
(* whose key was already seen logs exactly one duplicate-word warning,     *)
(* then one different-definition warning exactly when the card's           *)
(* definition differs from that of the entry stored for the key, and goes  *)
(* on to the next card; an iteration on a card with a new key logs         *)
(* nothing.                                                                *)
(***************************************************************************)
IterationLogsAsClaimed ==
    LET card == dedupCards[dedupIdx]
        at == SeenIndex(seen, Root(card.word))
        added == SubSeq(log', Len(log) + 1, Len(log'))
    IN  /\ dedupPc' = "loop"
        /\ dedupIdx' = dedupIdx + 1
        /\ SubSeq(log', 1, Len(log)) = log
        /\ IF at = 0
           THEN added = <<>>
           ELSE IF seen[at].card.definition # card.definition
           THEN added = <<[warning |-> "Duplicate word", text |-> <<card.word>>],
                          [warning |-> "Different definition",
                           text |-> <<seen[at].card.definition, card.definition>>]>>
           ELSE added = <<[warning |-> "Duplicate word", text |-> <<card.word>>]>>

C10_WarningsPerDuplicate ==
    [][(dedupPc = "loop" /\ dedupIdx <= Len(dedupCards)) => IterationLogsAsClaimed]_vars

\* Three cards of one key were processed: the second differed from the
\* stored definition, the third did not differ from the merged one although
\* it differs from the first card's.
C10_Witness ==
    /\ dedupPc = "done"
    /\ Len(dedupCards) = 3
    /\ Len(dedupOut) = 1
    /\ dedupCards[3].definition # dedupCards[1].definition
    /\ Len(log) = 3
    /\ log[1].warning = "Duplicate word"
    /\ log[2].warning = "Different definition"
    /\ log[3].warning = "Duplicate word"

(***************************************************************************)
(* Registration: the calls that fill Action.jump_table, from the empty     *)
(* dict of the class body.                                                 *)
(***************************************************************************)

\* Number of registration calls.
MaxRegistrations == 4

\* What is registered: defs of one parameter, a def of two, and mappings
\* for regex_substitute, one of which does not compile.
RegisteredFunctions ==
    {Def("trim_space"), Def("pair_exclamation"),
     [fname |-> "helper", arity |-> 2, kind |-> "helper", mapping |-> <<>>]}
RegisteredMappings ==
    {UniformSpaceMapping, UniformParenthesisMapping,
     <<[pattern |-> InvalidPattern, repl |-> <<>>]>>}
RegisteredNames == {"", "uniform_space", "trim_space"}

RegistryInit ==
    /\ TextIdle
    /\ SiteIdle
    /\ PassIdle
    /\ MainIdle
    /\ ApplyIdle
    /\ CodecIdle
    /\ DedupIdle
    /\ jump_table = <<>>
    /\ regCall = NoCall
    /\ regRaised = "none"
    /\ regCount = 0

\* Action.register(action, name), also as @Action.register and, through the
\* partial it returns for a str, as @Action.register(name)
Register(action, name) ==
    /\ regCount < MaxRegistrations
    /\ LET r == ActionInit(jump_table, action, name)
       IN  /\ jump_table' = r.table
           /\ regRaised' = r.raised
    /\ regCall' = [op |-> "register", action |-> action, name |-> name]
    /\ regCount' = regCount + 1
    /\ UNCHANGED <<textVars, siteVars, passVars, codecVars, dedupVars, applyVars, mainVars>>

\* Action.regex_substitute(to_be_replaced, name)
RegexSubstitute(mapping, name) ==
    /\ regCount < MaxRegistrations
    /\ LET r == RegexSubstituteCall(jump_table, mapping, name)
       IN  /\ jump_table' = r.table
           /\ regRaised' = r.raised
    /\ regCall' = [op |-> "regex_substitute", action |-> RegexImpl(mapping), name |-> name]
    /\ regCount' = regCount + 1
    /\ UNCHANGED <<textVars, siteVars, passVars, codecVars, dedupVars, applyVars, mainVars>>

RegistryNext ==
    \/ \E action \in RegisteredFunctions, name \in RegisteredNames :
            Register(action, name)
    \/ \E mapping \in RegisteredMappings, name \in RegisteredNames :
            RegexSubstitute(mapping, name)

SpecRegistry == RegistryInit /\ [][RegistryNext]_vars

(***************************************************************************)
(* C1.  Registering under a name that is already in the registry fails     *)
(* with an error and leaves the registry unchanged; after any sequence of  *)
(* register / regex_substitute calls each name maps to the function of its *)
(* first successful registration, and no name is bound twice.              *)
(***************************************************************************)
NamesBoundOnce(table) ==
    \A i, j \in 1..Len(table) : table[i].name = table[j].name => i = j

RegistrationKeepsFirstBinding ==
    LET called == EffectiveName(regCall'.action, regCall'.name)
    IN  /\ called \in TableNames(jump_table) =>
            /\ regRaised' = "ValueError"
            /\ jump_table' = jump_table
        /\ Len(jump_table') >= Len(jump_table)
        /\ \A i \in 1..Len(jump_table) : jump_table'[i] = jump_table[i]
        /\ NamesBoundOnce(jump_table')

C1_DuplicateNameRejected == [][RegistrationKeepsFirstBinding]_vars

\* A call has just failed on a name that is bound to another function, in a
\* table of two names.
C1_Witness ==
    /\ regRaised = "ValueError"
    /\ regCall.action.arity = 1
    /\ regCall.op = "register"
    /\ Len(jump_table) = 2
    /\ EffectiveName(regCall.action, regCall.name) \in TableNames(jump_table)
    /\ jump_table[TableIndex(jump_table,
            EffectiveName(regCall.action, regCall.name))].action # regCall.action

(***************************************************************************)
(* Action.apply(cards, actions) on a list of distinct Card objects, the    *)
(* registry being the one main.py builds at import.                        *)
(***************************************************************************)

\* Longest list of cards and longest list of actions.
MaxApplyCards == 2
MaxActions == 2

ApplyWords ==
    {<<" ", "a">>, <<FullwidthLeftParen, "a">>, <<"a", " ", " ", "a">>}
ApplyDefinitions == {<<"b">>, <<"b", " ">>}
ApplyInputs == {Card(<<w, d>>) : w \in ApplyWords, d \in ApplyDefinitions}
ApplyNames == {"uniform_space", "uniform_parenthesis", "trim_space", "no_such_action"}

ApplyInit ==
    /\ TextIdle
    /\ SiteIdle
    /\ PassIdle
    /\ MainIdle
    /\ CodecIdle
    /\ DedupIdle
    /\ RegIdle
    /\ regexModule = "regex"
    /\ heap \in ListsUpTo(ApplyInputs, MaxApplyCards)
    /\ applyArg = heap
    /\ applyActions \in ListsUpTo({ByName(n) : n \in ApplyNames}, MaxActions)
    /\ applyStage = 1
    /\ applyFn = Def("none")
    /\ applyCards = [i \in 1..Len(heap) |-> i]
    /\ applyNew = <<>>
    /\ applyPos = 1
    /\ applyPc = "for"
    /\ applyTrace = <<>>

\* for action in actions: if isinstance(action, str): action = cls.jump_table[action]
ApplyResolve ==
    /\ applyPc = "for"
    /\ applyStage <= Len(applyActions)
    /\ LET action == StageAction(applyActions, applyStage)
       IN  IF action.str /\ action.name \notin TableNames(jump_table)
           THEN /\ applyPc' = "KeyError"
                /\ UNCHANGED <<applyFn, applyNew, applyPos>>
           ELSE /\ applyFn' = IF action.str
                              THEN jump_table[TableIndex(jump_table, action.name)].action
                              ELSE action.fn
                /\ applyNew' = <<>>
                /\ applyPos' = 1
                /\ applyPc' = "map"
    /\ UNCHANGED <<textVars, siteVars, passVars, regexModule, heap, applyArg, applyActions, applyStage, applyCards,
                   applyTrace, codecVars, dedupVars, regVars, mainVars>>

\* [action(card) for card in cards]: one call
ApplyMap ==
    /\ applyPc = "map"
    /\ applyPos <= Len(applyCards)
    /\ LET obj == applyCards[applyPos]
           r == Call(applyFn, heap[obj], regexModule)
       IN  /\ applyTrace' = Append(applyTrace, [stage |-> applyStage, card |-> obj])
           /\ IF r.raised # "none"
              THEN /\ applyPc' = r.raised
                   /\ UNCHANGED <<heap, applyNew, applyPos>>
              ELSE /\ heap' = [heap EXCEPT ![obj] = r.card]
                   /\ applyNew' = Append(applyNew, obj)
                   /\ applyPos' = applyPos + 1
                   /\ applyPc' = "map"
    /\ UNCHANGED <<textVars, siteVars, passVars, regexModule, applyArg, applyActions, applyStage, applyFn, applyCards,
                   codecVars, dedupVars, regVars, mainVars>>

\* cards = [...]: the comprehension is complete, the local is rebound
ApplyRebind ==
    /\ applyPc = "map"
    /\ applyPos > Len(applyCards)
    /\ applyCards' = applyNew
    /\ applyStage' = applyStage + 1
    /\ applyPc' = "for"
    /\ UNCHANGED <<textVars, siteVars, passVars, regexModule, heap, applyArg, applyActions, applyFn, applyNew, applyPos,
                   applyTrace, codecVars, dedupVars, regVars, mainVars>>

\* return cards
ApplyReturn ==
    /\ applyPc = "for"
    /\ applyStage > Len(applyActions)
    /\ applyPc' = "done"
    /\ UNCHANGED <<textVars, siteVars, passVars, regexModule, heap, applyArg, applyActions, applyStage, applyFn,
                   applyCards, applyNew, applyPos, applyTrace,
                   codecVars, dedupVars, regVars, mainVars>>

ApplyNext == ApplyResolve \/ ApplyMap \/ ApplyRebind \/ ApplyReturn

SpecApply == ApplyInit /\ [][ApplyNext]_vars

(***************************************************************************)
(* C2.  Action.apply(cards, [a1..an]) applies the actions strictly left to *)
(* right, and stage k to every card before stage k+1 to any card; the      *)
(* result has the length and the card order of the input, and card i of    *)
(* the result is an(...a1(card i)...).                                     *)
(***************************************************************************)
\* an(...a1(card)...), each action looked up in the registry
RECURSIVE ThroughAll(_, _)
ThroughAll(actions, card) ==
    IF actions = <<>> THEN card
    ELSE ThroughAll(Tail(actions),
            Call(jump_table[TableIndex(jump_table, Head(actions).name)].action,
                 card, regexModule).card)

C2_StagesInOrderOverAllCards ==
    /\ \A p \in 1..Len(applyTrace) :
        applyTrace[p] = [stage |-> ((p - 1) \div Len(applyArg)) + 1,
                         card |-> ((p - 1) % Len(applyArg)) + 1]
    /\ applyPc = "done" =>
        /\ Len(applyTrace) = Len(applyActions) * Len(applyArg)
        /\ applyCards = [i \in 1..Len(applyArg) |-> i]
        /\ \A i \in 1..Len(applyArg) : heap[i] = ThroughAll(applyActions, applyArg[i])

\* Two different cards went through two actions whose order matters.
C2_Witness ==
    /\ applyPc = "done"
    /\ Len(applyArg) = 2
    /\ applyArg[1] # applyArg[2]
    /\ Len(applyActions) = 2
    /\ heap[1] # applyArg[1]
    /\ heap[1] # ThroughAll(<<applyActions[2], applyActions[1]>>, applyArg[1])

(***************************************************************************)
(* C3.  When the sequence of action names holds a name that is not in the  *)
(* registry, Action.apply fails before any card is processed: the failed   *)
(* call has changed no card's word or definition, even when valid names    *)
(* precede the unknown one.                                                *)
(***************************************************************************)
C3_UnknownNameFailsBeforeAnyCard ==
    applyPc = "KeyError" =>
        \A i \in 1..Len(applyArg) :
            /\ heap[i].word = applyArg[i].word
            /\ heap[i].definition = applyArg[i].definition

(***************************************************************************)
(* main: parse, Card.loads, Action.apply, deduplicate, Card.dumps.  An     *)
(* exception that a step raises is caught nowhere and ends the run.        *)
(***************************************************************************)

\* Longest list of names given with --action.
MaxMainActions == 2

MainNames == {"trim_space", "pair_quotation", "no_such_action"}

\* Input files: empty; one card; two cards that are duplicates once
\* trimmed; a chunk of one field; a chunk of three fields.
MainFiles ==
    {<<>>,
     Concat(<<<<"a">>, SepToken, <<"a">>>>),
     Concat(<<<<" ", "a">>, SepToken, <<"a">>, CardToken, <<"a">>, SepToken, <<"a", " ">>>>),
     Concat(<<<<"a">>, CardToken, <<"a">>, SepToken, <<"a">>>>),
     Concat(<<<<"a">>, SepToken, <<"a">>, SepToken, <<"a">>>>)}

MainInit ==
    /\ TextIdle
    /\ SiteIdle
    /\ PassIdle
    /\ DedupIdle
    /\ RegIdle
    /\ file \in MainFiles
    /\ wdSep = DefaultWordDefinitionSep
    /\ cardSep = DefaultCardSep
    /\ cardsArg = <<>>
    /\ loaded = [raised |-> "none", cards |-> <<>>]
    /\ codecPc = "idle"
    /\ regexModule \in {"regex", "re"}
    /\ heap = <<>>
    /\ applyArg = <<>>
    /\ applyActions = <<>>
    /\ applyStage = 1
    /\ applyFn = Def("none")
    /\ applyCards = <<>>
    /\ applyNew = <<>>
    /\ applyPos = 1
    /\ applyPc = "idle"
    /\ applyTrace = <<>>
    /\ mainPc = "parse"
    /\ mainActionArg \in
        {[given |-> FALSE, names |-> <<>>]} \cup
        {[given |-> TRUE, names |-> l] :
            l \in ListsUpTo(MainNames, MaxMainActions) \ {<<>>}}
    /\ outFile = OldOutput
    /\ outOpened = FALSE
    /\ mainSteps = <<>>

\* The run goes on after Card.loads whatever it raised, with no cards.
AfterLoadsIgnoringError(r) == "apply"

\* cards = Card.loads(...): where main is after the call
AfterLoads(r) == IF r.raised = "none" THEN "apply" ELSE r.raised

\* args = parse(): --action takes one or more names out of the keys of
\* jump_table (argparse exits on any other), and defaults to its values.
MainParse ==
    /\ mainPc = "parse"
    /\ IF mainActionArg.given
          /\ \E k \in 1..Len(mainActionArg.names) :
                mainActionArg.names[k] \notin TableNames(jump_table)
       THEN /\ mainPc' = "SystemExit"
            /\ UNCHANGED applyActions
       ELSE /\ mainPc' = "load"
            /\ applyActions' =
                IF mainActionArg.given
                THEN [k \in 1..Len(mainActionArg.names) |-> ByName(mainActionArg.names[k])]
                ELSE [k \in 1..Len(jump_table) |-> ByFunction(jump_table[k].action)]
    /\ UNCHANGED <<textVars, siteVars, passVars, regexModule, heap, applyArg, applyStage, applyFn, applyCards, applyNew,
                   applyPos, applyPc, applyTrace, mainActionArg, outFile, outOpened,
                   mainSteps, codecVars, dedupVars, regVars>>

\* cards = Card.loads(args.input, ...), then the call of Action.apply
MainLoad ==
    /\ mainPc = "load"
    /\ LET r == CardLoads(file, wdSep, cardSep)
       IN  /\ loaded' = r
           /\ mainPc' = AfterLoads(r)
           /\ heap' = r.cards
           /\ applyArg' = r.cards
           /\ applyCards' = [i \in 1..Len(r.cards) |-> i]
           /\ mainSteps' = IF r.raised = "none" THEN Append(mainSteps, "load") ELSE mainSteps
           /\ applyPc' = IF AfterLoads(r) = "apply" THEN "for" ELSE applyPc
    /\ applyStage' = 1
    /\ UNCHANGED <<textVars, siteVars, passVars, file, wdSep, cardSep, cardsArg, codecPc, regexModule, applyActions,
                   applyFn, applyNew, applyPos, applyTrace, mainActionArg, outFile,
                   outOpened, dedupVars, regVars>>

\* cards = Action.apply(cards, args.action) returned: deduplicate is called
MainApplied ==
    /\ mainPc = "apply"
    /\ applyPc = "done"
    /\ dedupCards' = [i \in 1..Len(applyCards) |-> heap[applyCards[i]]]
    /\ dedupIdx' = 1
    /\ seen' = <<>>
    /\ dedupPc' = "loop"
    /\ mainPc' = "dedup"
    /\ mainSteps' = Append(mainSteps, "apply")
    /\ UNCHANGED <<textVars, siteVars, passVars, log, dedupOut, mainActionArg, outFile, outOpened,
                   codecVars, regVars, applyVars>>

\* Action.apply raised
MainApplyRaised ==
    /\ mainPc = "apply"
    /\ applyPc \notin {"for", "map", "done"}
    /\ mainPc' = applyPc
    /\ UNCHANGED <<textVars, siteVars, passVars, mainActionArg, outFile, outOpened, mainSteps,
                   codecVars, dedupVars, regVars, applyVars>>

\* cards = deduplicate(cards) returned: Card.dumps(args.output, cards, "\t", "\n")
\* opens the file for writing and writes the joined text
MainDump ==
    /\ mainPc = "dedup"
    /\ dedupPc = "done"
    /\ cardsArg' = dedupOut
    /\ outOpened' = TRUE
    /\ outFile' = CardDumps(dedupOut, <<"\t">>, <<"\n">>)
    /\ mainPc' = "exit"
    /\ mainSteps' = mainSteps \o <<"dedup", "dump">>
    /\ UNCHANGED <<textVars, siteVars, passVars, file, wdSep, cardSep, loaded, codecPc, mainActionArg,
                   dedupVars, regVars, applyVars>>

MainNext ==
    \/ MainParse
    \/ MainLoad
    \/ (mainPc = "apply" /\ ApplyNext)
    \/ MainApplied
    \/ MainApplyRaised
    \/ (mainPc = "dedup" /\ DedupNext)
    \/ MainDump

SpecMain == MainInit /\ [][MainNext]_vars

(***************************************************************************)
(* C4.  In a run of main the steps occur in the order load, apply every    *)
(* action stage, deduplicate, dump, and the output file is opened for      *)
(* writing only after all the earlier steps completed without error: when  *)
(* load or apply fails, nothing is written to the output file.             *)
(***************************************************************************)
MainFailed == mainPc \in {"SystemExit", "TypeError", "KeyError", "re.error"}

C4_OutputOnlyAfterAllSteps ==
    /\ \E n \in 0..4 : mainSteps = SubSeq(<<"load", "apply", "dedup", "dump">>, 1, n)
    /\ outOpened =>
        /\ mainSteps = <<"load", "apply", "dedup", "dump">>
        /\ loaded.raised = "none"
        /\ applyPc = "done"
        /\ Len(applyTrace) = Len(applyActions) * Len(loaded.cards)
        /\ dedupPc = "done"
    /\ ~outOpened => outFile = OldOutput
    /\ MainFailed => ~outOpened

\* Action.apply failed in its second stage, the cards loaded and the first
\* stage applied to them: the output file is as it was.
C4_Witness ==
    /\ mainPc = "re.error"
    /\ loaded.raised = "none"
    /\ Len(loaded.cards) = 2
    /\ applyStage = 2
    /\ Len(applyTrace) = 3
    /\ heap # applyArg
    /\ outFile = OldOutput
    /\ ~outOpened

(***************************************************************************)
(* Loading and dumping: Card.loads on a file of text, and Card.dumps       *)
(* followed by Card.loads of what it wrote.                                *)
(***************************************************************************)

\* Longest input text, in tokens, and longest list of cards.
MaxTokens == 5
MaxCards == 2

\* Input files: every text made of at most MaxTokens of these pieces.
Tokens == {<<"a">>, <<" ">>, SepToken, CardToken}

RECURSIVE TokenTexts(_)
TokenTexts(n) ==
    IF n = 0 THEN {<<>>}
    ELSE LET shorter == TokenTexts(n - 1)
         IN  shorter \cup {t \o tok : t \in shorter, tok \in Tokens}

\* Words and definitions of the cards that are dumped, and the separators
\* handed to Card.dumps (as str) and to Card.loads (compiled).
FieldTexts == {<<>>, <<"a">>, <<"b">>, <<"\r">>}
SepTexts == {<<"\t">>, <<"\n">>, <<"a">>, <<"a", "a">>}

DumpedCards ==
    {Card(<<w, d>>) : w \in FieldTexts, d \in FieldTexts}

CodecInit ==
    /\ TextIdle
    /\ SiteIdle
    /\ PassIdle
    /\ MainIdle
    /\ ApplyIdle
    /\ DedupIdle
    /\ RegIdle
    /\ loaded = [raised |-> "none", cards |-> <<>>]
    /\ \/ /\ codecPc = "load"
          /\ file \in TokenTexts(MaxTokens)
          /\ wdSep = DefaultWordDefinitionSep
          /\ cardSep = DefaultCardSep
          /\ cardsArg = <<>>
       \/ /\ codecPc = "dump"
          /\ file = <<>>
          /\ wdSep \in {Literal(t) : t \in SepTexts}
          /\ cardSep \in {Literal(t) : t \in SepTexts}
          /\ cardsArg \in ListsUpTo(DumpedCards, MaxCards)

\* Card.loads(file, wdSep, cardSep)
Loads ==
    /\ codecPc \in {"load", "reload"}
    /\ loaded' = CardLoads(file, wdSep, cardSep)
    /\ codecPc' = IF codecPc = "load" THEN "loaded" ELSE "reloaded"
    /\ UNCHANGED <<textVars, siteVars, passVars, file, wdSep, cardSep, cardsArg, dedupVars, regVars, applyVars, mainVars>>

\* Card.dumps(file, cardsArg, wdSep, cardSep), the separators as str
Dumps ==
    /\ codecPc = "dump"
    /\ file' = CardDumps(cardsArg, wdSep.lit, cardSep.lit)
    /\ codecPc' = "reload"
    /\ UNCHANGED <<textVars, siteVars, passVars, wdSep, cardSep, cardsArg, loaded, dedupVars, regVars, applyVars, mainVars>>

CodecNext == Loads \/ Dumps

SpecCodec == CodecInit /\ [][CodecNext]_vars

(***************************************************************************)
(* C5.  Card.loads fails, returning no list, whenever some non-empty chunk *)
(* does not split on the word/definition separator into exactly two        *)
(* fields.                                                                 *)
(***************************************************************************)
ChunksOf(content, card_sep) ==
    SelectSeq(RegexSplit(card_sep, ReadText(content)), NonEmpty)

HasChunkNotTwoFields ==
    \E i \in 1..Len(ChunksOf(file, cardSep)) :
        Len(RegexSplit(wdSep, ChunksOf(file, cardSep)[i])) # 2

C5_LoadsFailsUnlessTwoFields ==
    (codecPc = "loaded" /\ HasChunkNotTwoFields) => loaded.raised # "none"

(***************************************************************************)
(* C6.  Round trip: for cards whose words and definitions are non-empty    *)
(* and contain neither separator, loading what Card.dumps wrote, with the  *)
(* same two separators, returns the same words and definitions in the same *)
(* order.                                                                  *)
(***************************************************************************)
FieldsOf(cards) ==
    {cards[i].word : i \in 1..Len(cards)} \cup {cards[i].definition : i \in 1..Len(cards)}

FieldsAvoidSeparators ==
    \A f \in FieldsOf(cardsArg) :
        /\ f # <<>>
        /\ ~Contains(f, wdSep.lit)
        /\ ~Contains(f, cardSep.lit)

SameWordsAndDefinitions(a, b) ==
    /\ Len(a) = Len(b)
    /\ \A i \in 1..Len(a) :
        /\ a[i].word = b[i].word
        /\ a[i].definition = b[i].definition

RoundTripHolds ==
    /\ loaded.raised = "none"
    /\ SameWordsAndDefinitions(loaded.cards, cardsArg)

\* No carriage return in a field or in a separator.
NoCarriageReturn ==
    /\ ~Contains(wdSep.lit, <<"\r">>)
    /\ ~Contains(cardSep.lit, <<"\r">>)
    /\ \A f \in FieldsOf(cardsArg) : ~Contains(f, <<"\r">>)

\* The claim as stated, for any two separators, taken to be different from
\* each other and, like the fields, free of carriage returns.
C6_RoundTripAnySeparators ==
    (codecPc = "reloaded" /\ FieldsAvoidSeparators /\ wdSep # cardSep
        /\ NoCarriageReturn)
        => RoundTripHolds

\* The separators are two different single characters, and neither they nor
\* the fields hold a carriage return (which reading turns into a newline).
SingleCharSeparators ==
    /\ Len(wdSep.lit) = 1
    /\ Len(cardSep.lit) = 1
    /\ wdSep.lit # cardSep.lit
    /\ NoCarriageReturn

\* The claim as amended: the round trip holds when, in addition, the
\* separators are two different single characters and no carriage return
\* is involved.
C6_RoundTripSingleCharSeparators ==
    (codecPc = "reloaded" /\ FieldsAvoidSeparators /\ SingleCharSeparators)
        => RoundTripHolds

C6_Witness ==
    /\ codecPc = "reloaded"
    /\ FieldsAvoidSeparators
    /\ SingleCharSeparators
    /\ Len(cardsArg) = 2
    /\ cardsArg[1] # cardsArg[2]
    /\ RoundTripHolds

(***************************************************************************)
(* pair_exclamation._impl(s): sentence_tokenize, the for loop over the     *)
(* sentences, and the join.                                                *)
(***************************************************************************)

\* Longest text.
MaxTextLen == 5

\* The texts: of exclamations and questions, and of abbreviations.
ExclamationChars == {"a", " ", "!", "?", InvertedExclamation, InvertedQuestion}
AbbreviationChars == {"a", "A", " ", ".", "?"}
ExTexts ==
    ListsUpTo(ExclamationChars, MaxTextLen) \cup ListsUpTo(AbbreviationChars, MaxTextLen)

ExInit ==
    /\ CodecIdle
    /\ DedupIdle
    /\ RegIdle
    /\ ApplyIdle
    /\ MainIdle
    /\ SiteIdle
    /\ PassIdle
    /\ TxIdle
    /\ PqIdle
    /\ exText \in ExTexts
    /\ exTokens = <<>>
    /\ exSentences = <<>>
    /\ exIdx = 1
    /\ exResult = <<>>
    /\ exPc = "tokenize"

\* sentences = sentence_tokenize(s)
ExTokenize ==
    /\ exPc = "tokenize"
    /\ exTokens' = SentenceTokenize(exText)
    /\ exSentences' = SentenceTokenize(exText)
    /\ exPc' = "for"
    /\ UNCHANGED <<exText, exIdx, exResult,
                   txVars, pqVars, codecVars, dedupVars, regVars, applyVars, mainVars, siteVars, passVars>>

\* for i, sentence in enumerate(sentences): one iteration
ExIterate ==
    /\ exPc = "for"
    /\ exIdx <= Len(exSentences)
    /\ exSentences' = [exSentences EXCEPT ![exIdx] = PairSentence(exSentences[exIdx])]
    /\ exIdx' = exIdx + 1
    /\ UNCHANGED <<exText, exTokens, exResult, exPc,
                   txVars, pqVars, codecVars, dedupVars, regVars, applyVars, mainVars, siteVars, passVars>>

\* return " ".join(sentences)
ExJoin ==
    /\ exPc = "for"
    /\ exIdx > Len(exSentences)
    /\ exResult' = Join(<<" ">>, exSentences)
    /\ exPc' = "done"
    /\ UNCHANGED <<exText, exTokens, exSentences, exIdx,
                   txVars, pqVars, codecVars, dedupVars, regVars, applyVars, mainVars, siteVars, passVars>>

ExNext == ExTokenize \/ ExIterate \/ ExJoin

SpecExclaim == ExInit /\ [][ExNext]_vars

(***************************************************************************)
(* C11.  pair_exclamation turns every tokenized sentence that ends with    *)
(* "!" and does not start with an inverted exclamation mark into that      *)
(* sentence with a single inverted exclamation mark prepended and nothing  *)
(* else changed.                                                           *)
(***************************************************************************)
C11_ExclamationGetsOpeningMark ==
    exPc = "done" =>
        \A i \in 1..Len(exTokens) :
            (EndsWith(exTokens[i], "!") /\ ~StartsWith(exTokens[i], InvertedExclamation))
                => exSentences[i] = <<InvertedExclamation>> \o exTokens[i]

(***************************************************************************)
(* C12.  pair_exclamation appends "!" to every tokenized sentence that     *)
(* starts with an inverted exclamation mark and does not end with "!",     *)
(* and appends "?" to every tokenized sentence that starts with an         *)
(* inverted question mark and does not end with "?".                       *)
(***************************************************************************)
QuestionGetsClosingMark ==
    \A i \in 1..Len(exTokens) :
        (StartsWith(exTokens[i], InvertedQuestion) /\ ~EndsWith(exTokens[i], "?"))
            => exSentences[i] = exTokens[i] \o <<"?">>

ExclamationGetsClosingMark ==
    \A i \in 1..Len(exTokens) :
        (StartsWith(exTokens[i], InvertedExclamation) /\ ~EndsWith(exTokens[i], "!"))
            => exSentences[i] = exTokens[i] \o <<"!">>

C12_OpeningMarkGetsClosingMark ==
    exPc = "done" => (ExclamationGetsClosingMark /\ QuestionGetsClosingMark)

(***************************************************************************)
(* C15.  sentence_tokenize splits the text at a whitespace character       *)
(* exactly when the character before it is one of ".", "?", "!" and the    *)
(* text before the whitespace ends neither with <word-char> "."            *)
(* <word-char> "." nor with <uppercase> <lowercase> "."; no other position *)
(* is a split point and the split whitespace is the only text removed.     *)
(***************************************************************************)
IsSplitPoint(s, i) ==
    /\ s[i] \in Whitespace
    /\ i >= 2
    /\ s[i - 1] \in {".", "?", "!"}
    /\ ~(/\ i >= 5
         /\ s[i - 4] \in WordChars
         /\ s[i - 3] = "."
         /\ s[i - 2] \in WordChars
         /\ s[i - 1] = ".")
    /\ ~(/\ i >= 4
         /\ s[i - 3] \in Uppercase
         /\ s[i - 2] \in Lowercase
         /\ s[i - 1] = ".")

\* The pieces of s between the split points, the characters at the split
\* points left out.
RECURSIVE CutFrom(_, _, _)
CutFrom(s, i, start) ==
    IF i > Len(s) THEN <<SubSeq(s, start, Len(s))>>
    ELSE IF IsSplitPoint(s, i)
         THEN <<SubSeq(s, start, i - 1)>> \o CutFrom(s, i + 1, i + 1)
         ELSE CutFrom(s, i + 1, start)

C15_SplitsAfterSentenceEnd ==
    exPc # "tokenize" => exTokens = CutFrom(exText, 1, 1)

(***************************************************************************)
(* Calls of one registered callable on one Card object: the _impl that     *)
(* regex_substitute builds, loop iteration by loop iteration, and          *)
(* trim_space.  The callable is called twice on the same object.           *)
(***************************************************************************)

\* Longest word, longest dict handed to regex_substitute.
MaxFieldLen == 3
MaxMappingLen == 2

TxWords == ListsUpTo({"a", "b", " ", "\t"}, MaxFieldLen)
TxDefinitions == {<<"a", "b">>, <<" ", "b", " ", " ">>, <<"\t", "a", " ", "b">>}

\* The items of the dicts: a key is a pattern, and the keys of a dict differ.
TxItems ==
    {[pattern |-> Literal(<<"a">>), repl |-> <<"b">>],
     [pattern |-> Literal(<<"b">>), repl |-> <<"a", "a">>],
     [pattern |-> Spaces, repl |-> <<" ">>]}

TxMappings ==
    {m \in ListsUpTo(TxItems, MaxMappingLen) :
        /\ m # <<>>
        /\ \A i, j \in 1..Len(m) : i # j => m[i].pattern # m[j].pattern}

\* The callables: what regex_substitute registers for such a dict, and the
\* uniform_space and trim_space of the jump table main.py builds.
TxCallables ==
    {RegexSubstituteCall(<<>>, m, "substitute").table[1].action : m \in TxMappings}
        \cup {BuiltinTable[TableIndex(BuiltinTable, n)].action :
                n \in {"uniform_space", "trim_space"}}

TxInit ==
    /\ CodecIdle
    /\ DedupIdle
    /\ RegIdle
    /\ ApplyIdle
    /\ MainIdle
    /\ SiteIdle
    /\ PassIdle
    /\ ExIdle
    /\ PqIdle
    /\ txFn \in TxCallables
    /\ txArg \in {Card(<<w, d>>) : w \in TxWords, d \in TxDefinitions}
    /\ txCard = txArg
    /\ txIdx = 1
    /\ txCalls = 0
    /\ txFirst = txArg

\* for k, v in to_be_replaced.items(): one iteration
ImplIterate ==
    /\ txCalls < 2
    /\ txFn.kind = "regex"
    /\ txIdx <= Len(txFn.mapping)
    /\ txCard' = ImplStep(txFn.mapping[txIdx], txCard)
    /\ txIdx' = txIdx + 1
    /\ UNCHANGED <<txFn, txArg, txCalls, txFirst,
                   exVars, pqVars, codecVars, dedupVars, regVars, applyVars, mainVars, siteVars, passVars>>

\* return card, and the next call starts
ImplReturn ==
    /\ txCalls < 2
    /\ txFn.kind = "regex"
    /\ txIdx > Len(txFn.mapping)
    /\ txCalls' = txCalls + 1
    /\ txFirst' = IF txCalls = 0 THEN txCard ELSE txFirst
    /\ txIdx' = 1
    /\ UNCHANGED <<txFn, txArg, txCard,
                   exVars, pqVars, codecVars, dedupVars, regVars, applyVars, mainVars, siteVars, passVars>>

\* trim_space(card)
TrimSpace ==
    /\ txCalls < 2
    /\ txFn.kind = "trim_space"
    /\ txCard' = TrimSpaceCard(txCard)
    /\ txCalls' = txCalls + 1
    /\ txFirst' = IF txCalls = 0 THEN TrimSpaceCard(txCard) ELSE txFirst
    /\ UNCHANGED <<txFn, txArg, txIdx,
                   exVars, pqVars, codecVars, dedupVars, regVars, applyVars, mainVars, siteVars, passVars>>

TxNext == ImplIterate \/ ImplReturn \/ TrimSpace

SpecTransform == TxInit /\ [][TxNext]_vars

(***************************************************************************)
(* C16.  A transform built by regex_substitute applies the (pattern,       *)
(* replacement) pairs in the given order, each to both the word and the    *)
(* definition and each on the output of the previous one; the word of the  *)
(* result depends on the word alone and the definition on the definition   *)
(* alone.                                                                  *)
(***************************************************************************)

\* The pairs of mapping applied to one text, first to last.
RECURSIVE SubstituteAll(_, _)
SubstituteAll(mapping, text) ==
    IF mapping = <<>> THEN text
    ELSE SubstituteAll(Tail(mapping),
                       RegexSub(Head(mapping).pattern, Head(mapping).repl, text))

C16_PairsInOrderOnBothFields ==
    (txFn.kind = "regex" /\ txCalls >= 1) =>
        /\ txFirst.word = SubstituteAll(txFn.mapping, txArg.word)
        /\ txFirst.definition = SubstituteAll(txFn.mapping, txArg.definition)
        /\ txFirst.picture = txArg.picture

\* Two pairs, the first of which writes what the second rewrites, have
\* been applied to a word and a definition they both change.
C16_Witness ==
    /\ txFn.kind = "regex"
    /\ txCalls >= 1
    /\ Len(txFn.mapping) = 2
    /\ txFn.mapping[1].repl = <<"b">>
    /\ txFn.mapping[2].pattern = Literal(<<"b">>)
    /\ Contains(txArg.word, <<"a">>)
    /\ txFirst.word # txArg.word
    /\ txFirst.definition # txArg.definition

(***************************************************************************)
(* C17.  uniform_space and trim_space are idempotent: applying the action  *)
(* twice to a card yields the same word and definition as applying it      *)
(* once.                                                                   *)
(***************************************************************************)
IsUniformSpaceOrTrimSpace(fn) ==
    \E n \in {"uniform_space", "trim_space"} :
        fn = BuiltinTable[TableIndex(BuiltinTable, n)].action

C17_UniformSpaceAndTrimSpaceIdempotent ==
    (IsUniformSpaceOrTrimSpace(txFn) /\ txCalls = 2) =>
        /\ txCard.word = txFirst.word
        /\ txCard.definition = txFirst.definition

\* trim_space has been applied twice to a card with whitespace at both
\* ends of a field, which the first call changed.
C17_Witness ==
    /\ txFn.kind = "trim_space"
    /\ txCalls = 2
    /\ txFirst # txArg
    /\ Len(txArg.definition) >= Len(txFirst.definition) + 3

(***************************************************************************)
(* deduplicate(deduplicate(cards)): the second call runs on the list the   *)
(* first one returned.                                                     *)
(***************************************************************************)

\* The words: "p", "elp" and "lap" have the key "p", "elelp" the key "elp".
TwiceWords == {<<"p">>, <<"e", "l", "p">>, <<"l", "a", "p">>, <<"e", "l", "e", "l", "p">>}
TwiceInputs ==
    {Card(<<w, d, p>>) : w \in TwiceWords, d \in DedupDefinitions, p \in DedupPictures}

TwiceInit ==
    /\ MainIdle
    /\ ApplyIdle
    /\ CodecIdle
    /\ RegIdle
    /\ TextIdle
    /\ SiteIdle
    /\ dedupCards \in ListsUpTo(TwiceInputs, MaxDedupCards)
    /\ dedupIdx = 1
    /\ seen = <<>>
    /\ log = <<>>
    /\ dedupOut = <<>>
    /\ dedupPc = "loop"
    /\ dedupPass = 1
    /\ dedupFirst = [cards |-> <<>>, log |-> <<>>]

\* deduplicate(...) of what deduplicate returned
DedupAgain ==
    /\ dedupPc = "done"
    /\ dedupPass = 1
    /\ dedupFirst' = [cards |-> dedupOut, log |-> log]
    /\ dedupPass' = 2
    /\ dedupCards' = dedupOut
    /\ dedupIdx' = 1
    /\ seen' = <<>>
    /\ dedupOut' = <<>>
    /\ dedupPc' = "loop"
    /\ UNCHANGED <<log, codecVars, regVars, applyVars, mainVars, textVars, siteVars>>

TwiceNext == DedupIterate \/ DedupReturn \/ DedupAgain

SpecDedupTwice == TwiceInit /\ [][TwiceNext]_vars

(***************************************************************************)
(* C18.  deduplicate is idempotent: deduplicate(deduplicate(cards)) equals *)
(* deduplicate(cards) card for card, and the second pass logs no warning.  *)
(***************************************************************************)
C18_DeduplicateIdempotent ==
    (dedupPass = 2 /\ dedupPc = "done") =>
        /\ dedupOut = dedupFirst.cards
        /\ log = dedupFirst.log

\* The first pass merged cards of one key into a card whose word is not
\* the key, next to a card of another key, and the second pass is done.
C18_Witness ==
    /\ dedupPass = 2
    /\ dedupPc = "done"
    /\ dedupFirst.log # <<>>
    /\ Len(dedupFirst.cards) >= 2
    /\ \E i \in 1..Len(dedupFirst.cards) :
        /\ Root(dedupFirst.cards[i].word) # dedupFirst.cards[i].word
        /\ \E j, k \in 1..Len(dedupFirst.log) : dedupFirst.log[j].text[1] # dedupFirst.log[k].text[1]

(***************************************************************************)
(* Folder.query of src/quizlet_helper/folder.py: the paged GET of          *)
(* _query_get and the fallback _query_js.  A folder of the site is a       *)
(* record [id, name].  The site answers a request for page k with the      *)
(* folders of that page and the paging data total, perPage, page; a page   *)
(* past the last one has no folders.  Any request may also fail.           *)
(***************************************************************************)

\* Most folders on the site, largest page size, and the number of pages
\* after which the model stops following the loop.
MaxFolders == 3
MaxPerPage == 2
MaxPage == 4

FolderNames == {<<"a">>, <<"a", "b">>, <<"b">>}

\* The folders are numbered as the site lists them.
Sites ==
    {[i \in 1..Len(names) |-> [id |-> i, name |-> names[i]]] :
        names \in ListsUpTo(FolderNames, MaxFolders)}

\* models["folder"] of the response to a request for page k
PageOf(folders, size, k) ==
    SubSeq(folders, (k - 1) * size + 1, IF k * size < Len(folders) THEN k * size ELSE Len(folders))

\* [f for f in results if query_str in f.name]
FilterByName(results, query_str) == SelectSeq(results, LAMBDA f : Contains(f.name, query_str))

QueryInit ==
    /\ CodecIdle
    /\ DedupIdle
    /\ RegIdle
    /\ ApplyIdle
    /\ MainIdle
    /\ TextIdle
    /\ PassIdle
    /\ FolderIdle
    /\ site \in Sites
    /\ perPage \in 1..MaxPerPage
    /\ qQuery \in {<<>>, <<"a">>}
    /\ qPage = 1
    /\ qResults = <<>>
    /\ qTotal = 0
    /\ qRequested = <<>>
    /\ qReturned = <<>>
    /\ qPc = "get"

\* One iteration of the while loop whose request succeeds and whose test
\* total <= perPage * page fails: params["page"] += 1.
QueryGetNextPage ==
    /\ qPc = "get"
    /\ qPage <= MaxPage
    /\ qTotal + Len(site) > perPage * qPage
    /\ qRequested' = Append(qRequested, qPage)
    /\ qResults' = qResults \o PageOf(site, perPage, qPage)
    /\ qTotal' = qTotal + Len(site)
    /\ qPage' = qPage + 1
    /\ UNCHANGED <<site, perPage, qQuery, qReturned, qPc,
                   codecVars, dedupVars, regVars, applyVars, mainVars, textVars, passVars, folderVars>>

\* One iteration whose request succeeds and whose test holds: break.
QueryGetBreak ==
    /\ qPc = "get"
    /\ qPage <= MaxPage
    /\ qTotal + Len(site) <= perPage * qPage
    /\ qRequested' = Append(qRequested, qPage)
    /\ qResults' = qResults \o PageOf(site, perPage, qPage)
    /\ qTotal' = qTotal + Len(site)
    /\ qPc' = "break"
    /\ UNCHANGED <<site, perPage, qQuery, qPage, qReturned,
                   codecVars, dedupVars, regVars, applyVars, mainVars, textVars, passVars, folderVars>>

\* One iteration whose request fails: assert rs.ok raises.
QueryGetFails ==
    /\ qPc = "get"
    /\ qPage <= MaxPage
    /\ qRequested' = Append(qRequested, qPage)
    /\ qPc' = "AssertionError"
    /\ UNCHANGED <<site, perPage, qQuery, qPage, qResults, qTotal, qReturned,
                   codecVars, dedupVars, regVars, applyVars, mainVars, textVars, passVars, folderVars>>

\* return [f for f in results if query_str in f.name]
QueryGetReturn ==
    /\ qPc = "break"
    /\ qReturned' = FilterByName(qResults, qQuery)
    /\ qPc' = "returned by get"
    /\ UNCHANGED <<site, perPage, qQuery, qPage, qResults, qTotal, qRequested,
                   codecVars, dedupVars, regVars, applyVars, mainVars, textVars, passVars, folderVars>>

\* except Exception: return self._query_js(name)
QueryFallback ==
    /\ qPc = "AssertionError"
    /\ qReturned' = FilterByName(site, qQuery)
    /\ qPc' = "returned by js"
    /\ UNCHANGED <<site, perPage, qQuery, qPage, qResults, qTotal, qRequested,
                   codecVars, dedupVars, regVars, applyVars, mainVars, textVars, passVars, folderVars>>

QueryNext ==
    \/ QueryGetNextPage
    \/ QueryGetBreak
    \/ QueryGetFails
    \/ QueryGetReturn
    \/ QueryFallback

SpecQuery == QueryInit /\ [][QueryNext]_vars

(***************************************************************************)
(* C19.  Folder._query_get terminates for every folder total: with T       *)
(* folders and page size P it requests pages 1 up to ceil(T/P) (page 1     *)
(* when there is no folder) and no further page, then leaves the loop and  *)
(* returns the folders of all fetched pages whose name contains the query  *)
(* string.                                                                 *)
(***************************************************************************)
PagesNeeded ==
    IF Len(site) = 0 THEN 1 ELSE (Len(site) + perPage - 1) \div perPage

C19_QueryGetStopsAfterLastPage ==
    /\ \A k \in 1..Len(qRequested) : qRequested[k] <= PagesNeeded
    /\ qPc = "returned by get" =>
        /\ qRequested = [k \in 1..PagesNeeded |-> k]
        /\ qReturned = FilterByName(site, qQuery)

(***************************************************************************)
(* Assignments to NamedFolder.created, by one client of the site.  A       *)
(* query that returns, by _query_get or by _query_js, returns the folders  *)
(* of the site whose name contains the queried name; with more folders     *)
(* than a page holds the query may also never return.  create and delete   *)
(* have acted on the site when they return.                                *)
(***************************************************************************)

\* Most assignments followed.
MaxAssignments == 3

\* NamedFolder.created with folders containing the name in place of equal to it.
IsCreatedByContains(folders, name) ==
    FilterByName(folders, name) # <<>>

\* NamedFolder.created (the getter), folders being the folders on the site:
\* any(f.name == self.name for f in self.query(self.name))
IsCreated(folders, name) ==
    \E i \in 1..Len(FilterByName(folders, name)) : FilterByName(folders, name)[i].name = name

\* NamedFolder.url when it is first read by delete: results[0].url
FirstResult(folders, name) == FilterByName(folders, name)[1].id

\* What self.url is in delete: the cached value once there is one.
UrlOf(folders, name, cached) == IF cached # 0 THEN cached ELSE FirstResult(folders, name)

HasId(folders, id) == \E i \in 1..Len(folders) : folders[i].id = id

FolderInit ==
    /\ CodecIdle
    /\ DedupIdle
    /\ RegIdle
    /\ ApplyIdle
    /\ MainIdle
    /\ TextIdle
    /\ PassIdle
    /\ site \in Sites
    /\ site0 = site
    /\ perPage \in 1..MaxPerPage
    /\ qQuery = <<>>
    /\ qPage = 1
    /\ qResults = <<>>
    /\ qTotal = 0
    /\ qRequested = <<>>
    /\ qReturned = <<>>
    /\ qPc = "idle"
    /\ fName \in {<<"a">>, <<"a", "b">>}
    /\ fUrl = 0
    /\ fNextId = Len(site) + 1
    /\ fAssigned = <<>>
    /\ fPc = "ready"

\* created = True, no folder of that name found: self.create()
AssignTrueCreates ==
    /\ fPc = "ready"
    /\ Len(fAssigned) < MaxAssignments
    /\ ~IsCreated(site, fName)
    /\ fAssigned' = Append(fAssigned, TRUE)
    /\ site' = Append(site, [id |-> fNextId, name |-> fName])
    /\ fNextId' = fNextId + 1
    /\ UNCHANGED <<fName, fUrl, fPc, site0, queryVars,
                   codecVars, dedupVars, regVars, applyVars, mainVars, textVars, passVars>>

\* created = False, a folder of that name found: self.delete(), which
\* opens self.url and deletes the folder shown there
AssignFalseDeletes ==
    /\ fPc = "ready"
    /\ Len(fAssigned) < MaxAssignments
    /\ IsCreated(site, fName)
    /\ HasId(site, UrlOf(site, fName, fUrl))
    /\ fAssigned' = Append(fAssigned, FALSE)
    /\ fUrl' = UrlOf(site, fName, fUrl)
    /\ site' = SelectSeq(site, LAMBDA f : f.id # UrlOf(site, fName, fUrl))
    /\ UNCHANGED <<fName, fNextId, fPc, site0, queryVars,
                   codecVars, dedupVars, regVars, applyVars, mainVars, textVars, passVars>>

\* created = False, a folder of that name found, and the cached url is that
\* of a folder deleted earlier: the page has no menu to click
AssignFalseDeleteFails ==
    /\ fPc = "ready"
    /\ Len(fAssigned) < MaxAssignments
    /\ IsCreated(site, fName)
    /\ ~HasId(site, UrlOf(site, fName, fUrl))
    /\ fAssigned' = Append(fAssigned, FALSE)
    /\ fPc' = "TimeoutError"
    /\ UNCHANGED <<fName, fUrl, fNextId, site0, site, queryVars,
                   codecVars, dedupVars, regVars, applyVars, mainVars, textVars, passVars>>

\* created = value with value equal to what the getter returns: neither
\* branch of the setter is taken
AssignNothing ==
    /\ fPc = "ready"
    /\ Len(fAssigned) < MaxAssignments
    /\ fAssigned' = Append(fAssigned, IsCreated(site, fName))
    /\ UNCHANGED <<fName, fUrl, fNextId, fPc, site0, site, queryVars,
                   codecVars, dedupVars, regVars, applyVars, mainVars, textVars, passVars>>

\* created = value on a site with more folders than a page holds, every
\* request of _query_get succeeding: the getter does not return
AssignQueryLoops ==
    /\ fPc = "ready"
    /\ Len(fAssigned) < MaxAssignments
    /\ Len(site) > perPage
    /\ \E value \in BOOLEAN : fAssigned' = Append(fAssigned, value)
    /\ fPc' = "querying"
    /\ UNCHANGED <<fName, fUrl, fNextId, site0, site, queryVars,
                   codecVars, dedupVars, regVars, applyVars, mainVars, textVars, passVars>>

FolderNext ==
    \/ AssignTrueCreates
    \/ AssignFalseDeletes
    \/ AssignFalseDeleteFails
    \/ AssignNothing
    \/ AssignQueryLoops

SpecFolder == FolderInit /\ [][FolderNext]_vars

(***************************************************************************)
(* C20.  Assigning NamedFolder.created is an ensure-state operation:       *)
(* created = True calls create only when no folder of that name is on the  *)
(* site, created = False calls delete only when one is, and otherwise      *)
(* nothing is done; hence after any sequence of created = True assignments *)
(* for one name on a site that had no such folder, exactly one folder of   *)
(* that name exists.                                                       *)
(***************************************************************************)
NamedOnSite(folders, name) == {i \in 1..Len(folders) : folders[i].name = name}

\* What an assignment did, read off the site before and after it.
Created == Len(site') > Len(site)
Deleted == Len(site') < Len(site)

AssignmentEnsuresState ==
    LET value == fAssigned'[Len(fAssigned')]
        exists == NamedOnSite(site, fName) # {}
    IN  /\ Created => (value /\ ~exists)
        /\ Deleted => (~value /\ exists)
        /\ (value <=> exists) => site' = site
        /\ (/\ fPc' = "ready"
            /\ NamedOnSite(site0, fName) = {}
            /\ \A k \in 1..Len(fAssigned') : fAssigned'[k])
                => Cardinality(NamedOnSite(site', fName)) = 1

C20_CreatedEnsuresState ==
    [][fAssigned' # fAssigned => AssignmentEnsuresState]_vars

\* created = True has been assigned three times on a site that had no
\* folder of the name but one whose name contains it.
C20_Witness ==
    /\ fPc = "ready"
    /\ fAssigned = <<TRUE, TRUE, TRUE>>
    /\ NamedOnSite(site0, fName) = {}
    /\ FilterByName(site0, fName) # <<>>
    /\ Len(site) = Len(site0) + 1

(***************************************************************************)
(* pair_quotation._impl(s), re being the regex module: finditer, for each  *)
(* match the loop that sorts its spans into levels, the loops that rewrite *)
(* char_arr, and the join.                                                 *)
(***************************************************************************)

\* Longest text of arbitrary characters.
MaxQuoteLen == 4

QuoteChars == {"a"} \cup QuoteGlyphs

\* A quotation of each glyph family around a body.
StraightSingle(body) == <<"'">> \o body \o <<"'">>
StraightDouble(body) == <<"\"">> \o body \o <<"\"">>
CurlySingle(body) == <<LeftSingleQuote>> \o body \o <<RightSingleQuote>>
CurlyDouble(body) == <<LeftDoubleQuote>> \o body \o <<RightDoubleQuote>>
Quotations(bodies) ==
    {StraightSingle(b) : b \in bodies} \cup {StraightDouble(b) : b \in bodies}
        \cup {CurlySingle(b) : b \in bodies} \cup {CurlyDouble(b) : b \in bodies}

\* Quotations of a word, quotations of one or two of those, and quotations
\* of one of the first next to one of the second, in either order.
FlatQuotations == Quotations({<<"a">>})
NestedOnce ==
    Quotations(FlatQuotations \cup {x \o <<" ">> \o y : x, y \in FlatQuotations})
NestedTwice ==
    Quotations(NestedOnce
        \cup {x \o y : x \in FlatQuotations, y \in NestedOnce}
        \cup {y \o x : x \in FlatQuotations, y \in NestedOnce})

PqTexts ==
    ListsUpTo(QuoteChars, MaxQuoteLen) \cup FlatQuotations \cup NestedOnce \cup NestedTwice
        \cup {<<"a">> \o x \o <<"a">> \o y : x, y \in FlatQuotations}

PqInit ==
    /\ CodecIdle
    /\ DedupIdle
    /\ RegIdle
    /\ ApplyIdle
    /\ MainIdle
    /\ SiteIdle
    /\ PassIdle
    /\ ExIdle
    /\ TxIdle
    /\ pqText \in PqTexts
    /\ pqCharArr = <<>>
    /\ pqMatches = <<>>
    /\ pqMatch = 1
    /\ pqSpan = 1
    /\ pqLevels = <<>>
    /\ pqResult = <<>>
    /\ pqPc = "finditer"

\* char_arr = list(s); match_quotation.finditer(s)
PqFinditer ==
    /\ pqPc = "finditer"
    /\ pqCharArr' = pqText
    /\ pqMatches' = FindQuotations(pqText, 1)
    /\ pqPc' = "for"
    /\ UNCHANGED <<pqText, pqMatch, pqSpan, pqLevels, pqResult, exVars, txVars,
                   codecVars, dedupVars, regVars, applyVars, mainVars, siteVars, passVars>>

\* for span in match.spans("quote"): one iteration
PqLevel ==
    /\ pqPc = "for"
    /\ pqMatch <= Len(pqMatches)
    /\ pqSpan <= Len(pqMatches[pqMatch])
    /\ pqLevels' = LevelStep(pqLevels, pqMatches[pqMatch][pqSpan])
    /\ pqSpan' = pqSpan + 1
    /\ UNCHANGED <<pqText, pqCharArr, pqMatches, pqMatch, pqResult, pqPc, exVars, txVars,
                   codecVars, dedupVars, regVars, applyVars, mainVars, siteVars, passVars>>

\* dbl = True; for level in levels: ...; then the next match
PqRewrite ==
    /\ pqPc = "for"
    /\ pqMatch <= Len(pqMatches)
    /\ pqSpan > Len(pqMatches[pqMatch])
    /\ pqCharArr' = RewriteLevels(pqCharArr, pqLevels, TRUE)
    /\ pqMatch' = pqMatch + 1
    /\ pqSpan' = 1
    /\ pqLevels' = <<>>
    /\ UNCHANGED <<pqText, pqMatches, pqResult, pqPc, exVars, txVars,
                   codecVars, dedupVars, regVars, applyVars, mainVars, siteVars, passVars>>

\* return "".join(char_arr)
PqJoin ==
    /\ pqPc = "for"
    /\ pqMatch > Len(pqMatches)
    /\ pqResult' = pqCharArr
    /\ pqPc' = "done"
    /\ UNCHANGED <<pqText, pqCharArr, pqMatches, pqMatch, pqSpan, pqLevels, exVars, txVars,
                   codecVars, dedupVars, regVars, applyVars, mainVars, siteVars, passVars>>

PqNext == PqFinditer \/ PqLevel \/ PqRewrite \/ PqJoin

SpecQuote == PqInit /\ [][PqNext]_vars

(***************************************************************************)
(* C13.  pair_quotation rewrites the marks of every properly nested        *)
(* quotation so that the style alternates with the nesting depth, whatever *)
(* the original glyphs and whatever the sibling spans: a span at even      *)
(* depth (0 the outermost) gets double curly marks, a span at odd depth    *)
(* single curly marks.                                                     *)
(***************************************************************************)
SpansOf(m) == {pqMatches[m][k] : k \in 1..Len(pqMatches[m])}

\* The number of spans of the match around a span.
DepthIn(m, span) ==
    Cardinality({outer \in SpansOf(m) : outer.lo < span.lo /\ span.hi < outer.hi})

C13_StyleAlternatesWithDepth ==
    pqPc = "done" =>
        \A m \in 1..Len(pqMatches) : \A span \in SpansOf(m) :
            IF DepthIn(m, span) % 2 = 0
            THEN /\ pqResult[span.lo + 1] = LeftDoubleQuote
                 /\ pqResult[span.hi] = RightDoubleQuote
            ELSE /\ pqResult[span.lo + 1] = LeftSingleQuote
                 /\ pqResult[span.hi] = RightSingleQuote

(***************************************************************************)
(* C14.  pair_quotation changes only the opening and the closing character *)
(* of matched quotation spans: the output is as long as the input, every   *)
(* character that is not the first or the last of a matched span is        *)
(* unchanged, and a text in which no quotation span matches is returned    *)
(* unchanged.                                                              *)
(***************************************************************************)
IsMarkOfSpan(i) ==
    \E m \in 1..Len(pqMatches) : \E span \in SpansOf(m) : i = span.lo + 1 \/ i = span.hi

C14_OnlySpanMarksChange ==
    pqPc = "done" =>
        /\ Len(pqResult) = Len(pqText)
        /\ \A i \in 1..Len(pqText) : ~IsMarkOfSpan(i) => pqResult[i] = pqText[i]
        /\ pqMatches = <<>> => pqResult = pqText

\* A straight quotation has been rewritten; a quotation mark that belongs
\* to no span follows it and is still there.
C14_Witness ==
    /\ pqPc = "done"
    /\ pqMatches # <<>>
    /\ pqResult # pqText
    /\ \E i \in 1..Len(pqText) :
        /\ pqText[i] \in QuoteGlyphs
        /\ ~IsMarkOfSpan(i)
        /\ \E j \in 1..(i - 1) : IsMarkOfSpan(j)

====
